---- MODULE Spec2Model ----
(***************************************************************************)
(* A model of LadokSession (src/ladok3.py): the credential handshake of    *)
(* the constructor, the signed-in check of the public operations, the      *)
(* identifier and date normalizers, get_results, the validation prefix     *)
(* and the create-or-update write of save_result, participants_JSON, and   *)
(* logout.                                                                 *)
(*                                                                         *)
(* Python strings whose characters the code inspects (person numbers,      *)
(* dates, grade codes, grade-scale codes) are sequences of one-character   *)
(* strings; strings the code only compares for equality (course codes,     *)
(* identifiers of the service) are TLA+ strings.  Python's None is None    *)
(* where a TLA+ string is expected, NoneSeq where a sequence of characters *)
(* is, and NoneRec where a record (a dict) is.                             *)
(***************************************************************************)
EXTENDS Integers, Sequences, FiniteSets, TLC

\* ------------------------------------------------------------------ bounds

\* Public operations called on one session object, with arguments from the
\* selected calls.
MaxOps == 2
\* Public operations called on one session object, with arguments from the
\* full product of the argument sets.
MaxWideOps == 1
\* Largest last-modification stamp the service hands out.
MaxStamp == 2

\* ---------------------------------------------------------- python strings

None == "None"

NoneSeq == <<"None">>

NoneRec == [none |-> TRUE]

Digits == {"0", "1", "2", "3", "4", "5", "6", "7", "8", "9"}

\* The characters \w matches among those the model uses.
WordChars == Digits \cup {"a", "b", "c", "A", "B", "C", "D", "E", "F", "P", "T", "X", "_"}

DigitVal(c) ==
    CASE c = "0" -> 0 [] c = "1" -> 1 [] c = "2" -> 2 [] c = "3" -> 3
      [] c = "4" -> 4 [] c = "5" -> 5 [] c = "6" -> 6 [] c = "7" -> 7
      [] c = "8" -> 8 [] c = "9" -> 9

\* s[i..j] are all digits (false when the string is too short): \d repeated.
AllDigits(s, i, j) == Len(s) >= j /\ \A k \in i..j : s[k] \in Digits

\* s[i..j] are all word characters: \w repeated.
AllWord(s, i, j) == Len(s) >= j /\ \A k \in i..j : s[k] \in WordChars

\* Position after an optional character of `chars` at position i (a greedy `?').
SkipOpt(s, i, chars) == IF Len(s) >= i /\ s[i] \in chars THEN i + 1 ELSE i

\* int() of the two digits s[i], s[i+1].
Int2(s, i) == 10 * DigitVal(s[i]) + DigitVal(s[i + 1])

\* Python's `needle in hay' on strings: needle is a contiguous part of hay.
IsSubstring(needle, hay) ==
    \E i \in 0..Len(hay) :
        /\ i + Len(needle) <= Len(hay)
        /\ \A k \in 1..Len(needle) : hay[i + k] = needle[k]

\* ------------------------------------------------------------- normalizers

\* Where the 4-character suffix of a person number starts when the part of
\* the pattern after the date, [+\-]?(\w\w\w\w), matches at position i; 0 when
\* it does not match.
PnrSuffixAt(s, i) ==
    LET j == SkipOpt(s, i, {"+", "-"})
    IN  IF AllWord(s, j, j + 3) THEN j ELSE 0

\* The person number as a pattern without the optional century group would
\* give it: the first two digits are always taken for the year.
validate_person_nr_no_century_group(person_nr_raw, year) ==
    LET s == person_nr_raw
        noC == IF AllDigits(s, 1, 6) THEN PnrSuffixAt(s, 7) ELSE 0
    IN  IF noC # 0
          THEN (IF year - 2000 >= Int2(s, 1) + 5 THEN <<"2", "0">> ELSE <<"1", "9">>)
                 \o SubSeq(s, 1, 6) \o SubSeq(s, noC, noC + 3)
        ELSE NoneSeq

\* The person number with the comparison of line 3501 made strict.
validate_person_nr_strict(person_nr_raw, year) ==
    LET s == person_nr_raw
        withC == IF AllDigits(s, 1, 8) THEN PnrSuffixAt(s, 9) ELSE 0
        noC   == IF AllDigits(s, 1, 6) THEN PnrSuffixAt(s, 7) ELSE 0
    IN  IF withC # 0
          THEN SubSeq(s, 1, 8) \o SubSeq(s, withC, withC + 3)
        ELSE IF noC # 0
          THEN (IF year - 2000 > Int2(s, 1) + 5 THEN <<"2", "0">> ELSE <<"1", "9">>)
                 \o SubSeq(s, 1, 6) \o SubSeq(s, noC, noC + 3)
        ELSE NoneSeq

\* re.match of (\d\d)?(\d\d)(\d\d\d\d)[+\-]?(\w\w\w\w): the optional century
\* is tried first, and given up when the rest does not match with it.
validate_person_nr(person_nr_raw, year) ==
    LET s == person_nr_raw
        withC == IF AllDigits(s, 1, 8) THEN PnrSuffixAt(s, 9) ELSE 0
        noC   == IF AllDigits(s, 1, 6) THEN PnrSuffixAt(s, 7) ELSE 0
    IN  IF withC # 0
          THEN SubSeq(s, 1, 8) \o SubSeq(s, withC, withC + 3)
        ELSE IF noC # 0
          THEN (IF year - 2000 >= Int2(s, 1) + 5 THEN <<"2", "0">> ELSE <<"1", "9">>)
                 \o SubSeq(s, 1, 6) \o SubSeq(s, noC, noC + 3)
        ELSE NoneSeq

\* Where month and day start when -?(\d\d)-?(\d\d) matches at position i
\* (<<month, day>>), <<0, 0>> when it does not.
DateRestAt(s, i) ==
    LET m == SkipOpt(s, i, {"-"})
        d == SkipOpt(s, m + 2, {"-"})
    IN  IF AllDigits(s, m, m + 1) /\ AllDigits(s, d, d + 1) THEN <<m, d>> ELSE <<0, 0>>

\* The date with the century of a two-digit year chosen by a pivot: 19 from
\* 50 on.
validate_date_pivot(date_raw) ==
    LET s == date_raw
        withC == IF AllDigits(s, 1, 4) THEN DateRestAt(s, 5) ELSE <<0, 0>>
        noC   == IF AllDigits(s, 1, 2) THEN DateRestAt(s, 3) ELSE <<0, 0>>
        out(prefix, md) == prefix \o <<"-">> \o SubSeq(s, md[1], md[1] + 1)
                                  \o <<"-">> \o SubSeq(s, md[2], md[2] + 1)
    IN  IF withC[1] # 0 THEN out(SubSeq(s, 1, 4), withC)
        ELSE IF noC[1] # 0
          THEN out((IF Int2(s, 1) >= 50 THEN <<"1", "9">> ELSE <<"2", "0">>) \o SubSeq(s, 1, 2), noC)
        ELSE NoneSeq

\* re.match of (\d\d)?(\d\d)-?(\d\d)-?(\d\d).
validate_date(date_raw) ==
    LET s == date_raw
        withC == IF AllDigits(s, 1, 4) THEN DateRestAt(s, 5) ELSE <<0, 0>>
        noC   == IF AllDigits(s, 1, 2) THEN DateRestAt(s, 3) ELSE <<0, 0>>
        out(prefix, md) == prefix \o <<"-">> \o SubSeq(s, md[1], md[1] + 1)
                                  \o <<"-">> \o SubSeq(s, md[2], md[2] + 1)
    IN  IF withC[1] # 0 THEN out(SubSeq(s, 1, 4), withC)
        ELSE IF noC[1] # 0 THEN out(<<"2", "0">> \o SubSeq(s, 1, 2), noC)
        ELSE NoneSeq

\* ---------------------------------------------------------------- service

\* The Accept header every authenticated call shares (self.__headers).
AcceptHeader == [Accept |-> "application/vnd.ladok-*+json"]

\* The grade-scale resource of the service, /resultat/grunddata/betygsskala,
\* as the constructor parses it: id, code and grades (id, code, accepted).
Catalog ==
    << [id |-> 1, code |-> <<"A", "F">>,
        grades |-> << [id |-> 11, code |-> <<"A">>, accepted |-> TRUE],
                      [id |-> 12, code |-> <<"B">>, accepted |-> TRUE],
                      [id |-> 13, code |-> <<"C">>, accepted |-> TRUE],
                      [id |-> 14, code |-> <<"D">>, accepted |-> TRUE],
                      [id |-> 15, code |-> <<"E">>, accepted |-> TRUE],
                      [id |-> 16, code |-> <<"F", "X">>, accepted |-> FALSE],
                      [id |-> 17, code |-> <<"F">>, accepted |-> FALSE] >>],
       [id |-> 2, code |-> <<"P", "F">>,
        grades |-> << [id |-> 21, code |-> <<"P">>, accepted |-> TRUE],
                      [id |-> 22, code |-> <<"F">>, accepted |-> FALSE] >>] >>

\* Largest value the XSRF cookie rotates to.
MaxCookie == 2

\* The years the clock may show.
Years == {2026}

\* The one student the service knows, by canonical person number and Uid.
KnownPnr == <<"1", "9", "4", "6", "1", "2", "1", "2", "1", "2", "1", "2">>

\* The answer to /studentinformation/student/filtrera?personnummer=...: its
\* 'Resultat' list.
StudentLookup(person_nr) ==
    IF person_nr = KnownPnr
      THEN << [Uid |-> "s1", Fornamn |-> "Anna", Efternamn |-> "Andersson",
               Personnummer |-> KnownPnr, Avliden |-> FALSE] >>
      ELSE << >>

\* The answer to .../kurstillfallesdeltagande/student/s1: 'Tillfallesdeltaganden'.
\* An earlier, no longer current, round of the course comes first.
Participations ==
    << [Uid |-> "d0", Nuvarande |-> FALSE, has_code |-> TRUE, Utbildningskod |-> "DD1321",
        UtbildningstillfalleUID |-> "r0", UtbildningUID |-> "e1", UtbildningsinstansUID |-> "i9"],
       [Uid |-> "d1", Nuvarande |-> TRUE, has_code |-> TRUE, Utbildningskod |-> "DD1321",
        UtbildningstillfalleUID |-> "r1", UtbildningUID |-> "e1", UtbildningsinstansUID |-> "i0"] >>

\* The answer to /resultat/kurstillfalle/r1/student/s1/moment: 'IngaendeMoment'.
Moments ==
    << [UtbildningsinstansUID |-> "i1", Utbildningskod |-> "TEN1", UtbildningUID |-> "e2"] >>

\* The component instances of round r1 results are reported on: the course
\* itself (i0) and its moment TEN1 (i1), in the order the service lists them.
InstanceOrder == <<"i0", "i1">>

Instances == {"i0", "i1"}

\* The UtbildningUID of the results reported on an instance.
EducationOf(inst) == IF inst = "i0" THEN "e1" ELSE "e2"

\* The Utbildningskod /resultat/utbildningsinstans/<instance> answers with.
InstanceCode(inst) == IF inst = "i0" THEN "DD1321" ELSE "TEN1"

\* The examination date of the results the service holds at the start.
ADate == <<"2", "0", "1", "9", "-", "0", "1", "-", "1", "4">>

\* The code of a grade of the catalog, by id.
GradeCode(grade_id) ==
    LET scale == CHOOSE s \in 1..Len(Catalog) :
                     \E g \in 1..Len(Catalog[s].grades) : Catalog[s].grades[g].id = grade_id
        grade == CHOOSE g \in 1..Len(Catalog[scale].grades) :
                     Catalog[scale].grades[g].id = grade_id
    IN  Catalog[scale].grades[grade].code

\* The answer to /resultat/studentresultat/attesterade/student/s1:
\* 'StudentresultatPerKurs'.  The group of another education comes first;
\* the group of education e1 starts with a credit transfer, which has no
\* grade code, followed by the attested results of the round's instances.
\* `keys' are the keys the record has.
AttestedAnswer(att) ==
    LET listed == SelectSeq(InstanceOrder, LAMBDA i : att[i] # NoneRec)
        all == {"Utbildningskod", "Betygsgradskod", "Examinationsdatum"}
    IN  << [KursUID |-> "e7",
            Studentresultat |->
              << [keys |-> all, Utbildningskod |-> "LAB1", Betygsgradskod |-> <<"P">>,
                  Examinationsdatum |-> ADate] >>],
           [KursUID |-> "e1",
            Studentresultat |->
              << [keys |-> {"Utbildningskod", "Examinationsdatum"}, Utbildningskod |-> "TGR1",
                  Betygsgradskod |-> NoneSeq, Examinationsdatum |-> ADate] >>
              \o [k \in 1..Len(listed) |->
                    [keys |-> all, Utbildningskod |-> InstanceCode(listed[k]),
                     Betygsgradskod |-> GradeCode(att[listed[k]].grade),
                     Examinationsdatum |-> att[listed[k]].date]]] >>

\* The answer to /resultat/resultat/resultat/student/s1/kurs/e1 with the two
\* non-final states: 'Resultat'.  A draft without a date has no
\* 'Examinationsdatum'.
PendingAnswer(pend) ==
    LET listed == SelectSeq(InstanceOrder, LAMBDA i : pend[i] # NoneRec)
    IN  [k \in 1..Len(listed) |->
           [UtbildningsinstansUID |-> listed[k], Kod |-> GradeCode(pend[listed[k]].grade),
            ProcessStatus |-> pend[listed[k]].status,
            has_date |-> pend[listed[k]].date # NoneSeq,
            Examinationsdatum |-> pend[listed[k]].date]]

\* The Uid the service gives the pending result of an instance.
PendingId(inst) == IF inst = "i0" THEN "p0" ELSE "p1"

\* The pending (draft) result the service may hold for an instance when the
\* session starts: grade E of scale AF, process status 1 (draft).
InitialPending(inst) ==
    [id |-> PendingId(inst), grade |-> 15, scale |-> 1,
     date |-> ADate, stamp |-> 1, status |-> 1]

\* A draft another user saved without an examination date.
UndatedPending(inst) == [InitialPending(inst) EXCEPT !.date = NoneSeq]

\* The attested result the service may hold for an instance when the session
\* starts: grade F of scale AF.
InitialAttested(inst) ==
    [id |-> IF inst = "i0" THEN "a0" ELSE "a1", grade |-> 17, scale |-> 1, date |-> ADate]

\* ------------------------------------------------------------------- state

VARIABLES
    obj,          \* "constructing" | "live" (the constructor returned) | "failed" (it raised)
    hs_pc,        \* the constructor's position in the handshake
    herr,         \* the exception the constructor raised, or None
    hlog,         \* the requests the constructor issued, in order
    page,         \* what the constructor found in the answer to its last request
    signed_in,    \* self.signed_in
    session,      \* self.__session: None or "s"
    s_closed,     \* whether s.close() was called on the transport
    headers,      \* self.__headers
    grade_scales, \* self.__grade_scales
    grade_by_id,  \* the ids self.__grade_by_id indexes
    cookie,       \* the XSRF-TOKEN cookie of the transport's jar (0: none)
    now_year,     \* datetime.datetime.now().year
    pc,           \* "idle", or the position of the public operation in progress
    call,         \* the operation in progress or last completed, with its arguments
    loc,          \* the local variables of the operation in progress
    reqs,         \* the requests the operation in progress or last completed issued
    ret,          \* how the last completed operation ended: return value or exception
    nops,         \* public operations called so far
    pending,      \* service: the pending (draft) result of each component instance
    attested,     \* service: the attested result of each component instance
    logged_out,   \* a logout of this session was answered with status 200
    wide,         \* whether save_result is called with the full product of arguments
    peer          \* the save_result a second worker runs on a session of its own

hsvars == <<obj, hs_pc, herr, hlog, page, signed_in, session, s_closed, headers,
            grade_scales, grade_by_id, cookie>>

opvars == <<pc, call, loc, reqs, ret, nops>>

srvvars == <<pending, attested>>

vars == <<hsvars, now_year, opvars, srvvars, logged_out, wide, peer>>

NoCall ==
    [op |-> None, person_nr_raw |-> NoneSeq, course_code |-> None, course_moment |-> None,
     result_date_raw |-> NoneSeq, grade_raw |-> NoneSeq, grade_scale |-> NoneSeq]

\* The locals of get_results and save_result; course_moment_id is "unbound"
\* until line 243 or 248 assigns it.  `checked' lists the checks of the
\* validation prefix that were evaluated, `r' is the body of the answer to
\* the write of save_result, `results' is the dict get_results
\* builds (a function of the component code) and `todo' the pending results
\* its loop of line 193 has still to visit.
NoLocals ==
    [checked |-> <<>>, person_nr |-> NoneSeq, result_date |-> NoneSeq,
     student_data |-> NoneRec, student_course |-> NoneRec, course_moment_id |-> "unbound",
     student_course_results |-> NoneRec, r |-> None, results |-> <<>>, todo |-> <<>>]

\* How an operation ended: the exception it raised (err), or the value it
\* returned (val, with err = None).
NoReturn == [kind |-> "none", err |-> None, val |-> None]

Raise(e) == [kind |-> "raise", err |-> e, val |-> None]

Return(v) == [kind |-> "return", err |-> None, val |-> v]

\* The second worker before it calls save_result: its position, the call,
\* the locals of the call, the write it sent and how the call ended.
NoPeer == [pc |-> "idle", call |-> NoCall, loc |-> NoLocals, reqs |-> <<>>, ret |-> NoReturn]

\* --------------------------------------------------------------- handshake

\* The state in which __init__ has run lines 39-56: the fields are set, the
\* transport s is created and no request has been issued.
Init ==
    /\ obj = "constructing"
    /\ hs_pc = "login"
    /\ herr = None
    /\ hlog = <<>>
    /\ page = {}
    /\ signed_in = FALSE
    /\ session = None
    /\ s_closed = FALSE
    /\ headers = AcceptHeader
    /\ grade_scales = <<>>
    /\ grade_by_id = {}
    /\ cookie = 0
    /\ now_year \in Years
    /\ pc = "idle"
    /\ call = NoCall
    /\ loc = NoLocals
    /\ reqs = <<>>
    /\ ret = NoReturn
    /\ nops = 0
    /\ pending \in [Instances -> {NoneRec} \cup
                                  UNION {{InitialPending(i), UndatedPending(i)} : i \in Instances}]
    /\ \A i \in Instances : pending[i] # NoneRec => pending[i].id = PendingId(i)
    /\ \E A \in SUBSET {"i1"} :
         attested = [i \in Instances |-> IF i \in A THEN InitialAttested(i) ELSE NoneRec]
    /\ logged_out = FALSE
    /\ wide = FALSE
    /\ peer = NoPeer

\* The constructor raises `kind' having issued the requests `log': no object
\* is returned, and the fields keep what they held.
HsRaise(kind, log) ==
    /\ obj' = "failed"
    /\ hs_pc' = "raised"
    /\ herr' = kind
    /\ hlog' = log

\* The ids of all grades of the scales, as the loop of lines 127-132 indexes them.
GradeIds(scales) ==
    UNION {{scales[i].grades[j].id : j \in 1..Len(scales[i].grades)} : i \in 1..Len(scales)}

\* What __init__ leaves untouched until its last two lines.
HsFields == <<signed_in, session, s_closed, headers, grade_scales, grade_by_id>>

\* Lines 58-62: GET /loggain, GET /shiblogin, then the continuation is cut
\* out of the final URL; re.search(...).group(1) raises AttributeError when
\* the URL has no return= parameter.
HsLogin ==
    /\ obj = "constructing" /\ hs_pc = "login"
    /\ \E has_return \in BOOLEAN :
         LET log == hlog \o <<"GET loggain", "GET shiblogin">>
         IN  /\ page' = IF has_return THEN {"return"} ELSE {}
             /\ IF has_return
                  THEN /\ hs_pc' = "idp"
                       /\ hlog' = log
                       /\ UNCHANGED <<obj, herr>>
                  ELSE HsRaise("AttributeError", log)
    /\ UNCHANGED <<HsFields, cookie>>

\* Line 64: GET of the identity-provider selection endpoint.
HsIdp ==
    /\ obj = "constructing" /\ hs_pc = "idp"
    /\ hs_pc' = "sso"
    /\ hlog' = hlog \o <<"GET idp">>
    /\ page' = {}
    /\ UNCHANGED <<obj, herr, HsFields, cookie>>

\* The three fragments lines 79-81 look for in the login form.
LoginFormFragments == {"action", "lt", "execution"}

\* A constructor that looks for the form action only: with it, a login form
\* without a token would have the credentials posted.
LoginFormOutcomeActionOnly(found) == IF "action" \notin found THEN "AttributeError" ELSE None

\* What lines 79-81 make of the login form: a missing fragment makes
\* re.search return None and .group(1) raise AttributeError.
LoginFormOutcome(found) == IF found # LoginFormFragments THEN "AttributeError" ELSE None

\* Lines 66-81: POST of the fixed form, then the form action and the two
\* tokens are cut out of the page.
HsSso ==
    /\ obj = "constructing" /\ hs_pc = "sso"
    /\ \E found \in SUBSET LoginFormFragments :
         LET log == hlog \o <<"POST sso">>
         IN  /\ page' = found
             /\ IF LoginFormOutcome(found) = None
                  THEN /\ hs_pc' = "credentials"
                       /\ hlog' = log
                       /\ UNCHANGED <<obj, herr>>
                  ELSE HsRaise(LoginFormOutcome(found), log)
    /\ UNCHANGED <<HsFields, cookie>>

\* The fragments lines 94-102 look for in the identity provider's answer.
SamlFormFragments == {"action", "RelayState", "SAMLResponse"}

\* A constructor without the test of line 95: with it, an answer without an
\* action form would fail in .group(1) like any other mismatch.
CredentialsOutcomeUntested(found) == IF found # SamlFormFragments THEN "AttributeError" ELSE None

\* A constructor that went on whatever the answer to the credential POST
\* holds.
CredentialsOutcomeIgnored(found) == None

\* What lines 94-102 make of the answer to the credential POST: without an
\* action form, Exception('Invalid username or password.'); with one but
\* without relay state or SAML response, AttributeError from .group(1).
CredentialsOutcome(found) ==
    IF "action" \notin found THEN "InvalidCredentials"
    ELSE IF found # SamlFormFragments THEN "AttributeError"
    ELSE None

\* Lines 83-102: POST of username, password and the two tokens.
HsCredentials ==
    /\ obj = "constructing" /\ hs_pc = "credentials"
    /\ \E found \in SUBSET SamlFormFragments :
         LET log == hlog \o <<"POST credentials">>
         IN  /\ page' = found
             /\ IF CredentialsOutcome(found) = None
                  THEN /\ hs_pc' = "saml"
                       /\ hlog' = log
                       /\ UNCHANGED <<obj, herr>>
                  ELSE HsRaise(CredentialsOutcome(found), log)
    /\ UNCHANGED <<HsFields, cookie>>

\* A constructor without the test of line 111: with it, the handshake of a
\* user unknown to Ladok would go on to the grade scales.
SamlOutcomeUntested(marker) == None

\* What line 111 makes of the page the SAML POST returns, given whether it
\* holds the marker text of a user unknown to Ladok.
SamlOutcome(marker) == IF marker THEN "NotTeacher" ELSE None

\* Lines 104-111: POST of relay state and SAML response; the answer sets the
\* session cookies, the XSRF cookie among them.
HsSaml ==
    /\ obj = "constructing" /\ hs_pc = "saml"
    /\ \E marker \in BOOLEAN :
         LET log == hlog \o <<"POST saml">>
         IN  /\ page' = IF marker THEN {"marker"} ELSE {}
             /\ IF SamlOutcome(marker) = None
                  THEN /\ hs_pc' = "scales"
                       /\ hlog' = log
                       /\ cookie' = 1
                       /\ UNCHANGED <<obj, herr>>
                  ELSE /\ HsRaise(SamlOutcome(marker), log)
                       /\ UNCHANGED cookie
    /\ UNCHANGED HsFields

\* How many scales of the answer lines 115-125 append before they raise:
\* none when the body is no JSON or has no 'Betygsskala', one when the second
\* scale lacks a field, all when the answer is well formed.
ScalesParsed(answer) ==
    CASE answer = "ok"        -> Catalog
      [] answer = "truncated" -> SubSeq(Catalog, 1, 1)
      [] answer = "nojson"    -> <<>>

\* A constructor that swallowed the exceptions of lines 113-132: with it, a
\* session would be active on a catalog that is not loaded.
ScalesLoadedAnyway(answer) == TRUE

\* Whether the constructor reaches lines 134-135 after the grade-scale fetch.
ScalesLoaded(answer) == answer = "ok"

\* Lines 113-135: GET of the grade scales, the catalog is parsed and indexed,
\* and then, with no request in between, signed_in and __session are set.
HsScales ==
    /\ obj = "constructing" /\ hs_pc = "scales"
    /\ \E answer \in {"ok", "truncated", "nojson"} :
         LET log == hlog \o <<"GET betygsskala">>
         IN  /\ page' = {answer}
             /\ grade_scales' = grade_scales \o ScalesParsed(answer)
             /\ IF ScalesLoaded(answer)
                  THEN /\ grade_by_id' = GradeIds(grade_scales')
                       /\ signed_in' = TRUE
                       /\ session' = "s"
                       /\ obj' = "live"
                       /\ hs_pc' = "done"
                       /\ hlog' = log
                       /\ UNCHANGED herr
                  ELSE /\ HsRaise("KeyError", log)
                       /\ UNCHANGED <<grade_by_id, signed_in, session>>
    /\ UNCHANGED <<s_closed, headers, cookie>>

Handshake ==
    /\ HsLogin \/ HsIdp \/ HsSso \/ HsCredentials \/ HsSaml \/ HsScales
    /\ UNCHANGED <<now_year, opvars, srvvars, logged_out, wide, peer>>

\* ------------------------------------------------------ public operations

\* The arguments the operations are called with.
PnrKnown == <<"4", "6", "1", "2", "1", "2", "-", "1", "2", "1", "2">>

PnrUnknown == <<"0", "5", "1", "2", "1", "2", "1", "2", "1", "2">>

PnrBad == <<"a", "b", "c">>

PnrInputs == {PnrKnown, PnrUnknown, PnrBad}

DateOk == <<"1", "9", "0", "3", "1", "4">>

DateBad == <<"a", "b", "c">>

DateInputs == {DateOk, DateBad}

CourseInputs == {"DD1321", "SF1624"}

MomentInputs == {"DD1321", "TEN1", "LAB9"}

GradeInputs ==
    { <<"A">>, <<"B">>, <<"C">>, <<"D">>, <<"E">>, <<"F">>, <<"P">>,
      <<"A", "F">>, <<"P", "F">> }

ScaleInputs == { <<"A", "F">>, <<"P", "F">>, <<"T", "H">> }

SaveArgs(p, cc, cm, d, g, gs) ==
    [op |-> "save_result", person_nr_raw |-> p, course_code |-> cc, course_moment |-> cm,
     result_date_raw |-> d, grade_raw |-> g, grade_scale |-> gs]

\* Every combination of the arguments (moments of the course only).
WideSaveCalls ==
    { SaveArgs(p, cc, cm, d, g, gs) :
        p \in PnrInputs, cc \in CourseInputs, cm \in {"DD1321", "TEN1"}, d \in DateInputs,
        g \in GradeInputs, gs \in ScaleInputs }

\* Selected calls: grade E on scale AF for moment TEN1 of DD1321, and the
\* calls that differ from it in one argument, or in grade and scale.
SelectedSaveCalls ==
    { SaveArgs(p, "DD1321", "TEN1", DateOk, <<"E">>, <<"A", "F">>) : p \in PnrInputs }
        \cup { SaveArgs(PnrKnown, cc, cm, DateOk, <<"E">>, <<"A", "F">>) :
                 cc \in CourseInputs, cm \in MomentInputs }
        \cup { SaveArgs(PnrKnown, "DD1321", "TEN1", d, <<"E">>, <<"A", "F">>) : d \in DateInputs }
        \cup { SaveArgs(PnrKnown, "DD1321", "TEN1", DateOk, g, gs) :
                 g \in { <<"A">>, <<"P">>, <<"F", "X">>, <<"A", "F">> }, gs \in ScaleInputs }
        \cup { SaveArgs(PnrBad, "DD1321", "TEN1", DateBad, <<"A">>, <<"P", "F">>) }

SaveCalls(w) == IF w THEN WideSaveCalls ELSE SelectedSaveCalls

\* The read sent as a POST of an empty body.
GetByPost(url) == [m |-> "POST", url |-> url, hdr |-> {"Accept"}, xsrf |-> 0, jar |-> 0, body |-> NoneRec]

\* A call through self.__session with headers = self.__headers.
Get(url) ==
    [m |-> "GET", url |-> url, hdr |-> {"Accept"}, xsrf |-> 0, jar |-> 0, body |-> NoneRec]

\* What the XSRF cookie may be after an answer: unchanged, or rotated.
Rotations(c) == {c} \cup (IF c < MaxCookie THEN {c + 1} ELSE {})

\* self.*, apart from the cookie jar of the transport, and the record of the
\* constructor's run.
SessionFields ==
    <<obj, hs_pc, herr, hlog, page, signed_in, session, s_closed, headers, grade_scales,
      grade_by_id>>

\* A public method can be called: the constructor returned the object and,
\* the session being used by one caller, no other method is running.
CanCall == obj = "live" /\ pc = "idle" /\ nops < (IF wide THEN MaxWideOps ELSE MaxOps)

\* `if not self.signed_in: raise Exception('Not signed in.')'
SignedInCheck(active) == IF active THEN None ELSE "NotSignedIn"

\* ---- the one-request accessors (grading_rights, the *_JSON accessors)

Accessors == {"grading_rights", "period_info_JSON"}

\* grading_rights subscripts the decoded body (KeyError on an error body);
\* the *_JSON accessors return the decoded body whatever it holds.
AccessorReturn(name, answer) ==
    CASE answer = "not_json" -> Raise("JSONDecodeError")
      [] answer = "error" /\ name = "grading_rights" -> Raise("KeyError")
      [] OTHER -> Return(answer)

\* Lines 419-422 (grading_rights), 473-476 (period_info_JSON) and the like:
\* the signed-in check, one GET, the decoded body.
accessor(name, active, answer) ==
    IF SignedInCheck(active) # None
      THEN [ret |-> Raise(SignedInCheck(active)), reqs |-> <<>>]
      ELSE [ret |-> AccessorReturn(name, answer), reqs |-> <<Get(name)>>]

Accessor ==
    /\ CanCall
    /\ \E name \in Accessors, answer \in {"ok", "error", "not_json"} :
         LET out == accessor(name, signed_in, answer)
         IN  /\ call' = [NoCall EXCEPT !.op = name]
             /\ ret' = out.ret
             /\ reqs' = out.reqs
             /\ cookie' \in (IF out.reqs = <<>> THEN {cookie} ELSE Rotations(cookie))
    /\ nops' = nops + 1
    /\ loc' = NoLocals
    /\ UNCHANGED <<pc, SessionFields, now_year, srvvars, logged_out, wide, peer>>

\* ---- all_grading_scale

\* Lines 406-409: returns self.__grade_scales.
all_grading_scale(active, scales) == [ret |-> Return(scales), reqs |-> <<>>]

AllGradingScale ==
    /\ CanCall
    /\ LET out == all_grading_scale(signed_in, grade_scales)
       IN  /\ call' = [NoCall EXCEPT !.op = "all_grading_scale"]
           /\ ret' = out.ret
           /\ reqs' = out.reqs
    /\ nops' = nops + 1
    /\ loc' = NoLocals
    /\ UNCHANGED <<pc, SessionFields, cookie, now_year, srvvars, logged_out, wide, peer>>

\* ---- logout

\* A logout that cleared the fields whatever the status: with it, an answer
\* other than 200 would end the session.
LogoutAcceptedAlways(status) == TRUE

\* A logout without lines 391-395: no answer ends the session.
LogoutAcceptedNever(status) == FALSE

\* Lines 391-395: only status 200 closes the transport and clears the fields.
LogoutAccepted(status) == status = 200

\* Lines 387-396.
Logout ==
    /\ CanCall
    /\ call' = [NoCall EXCEPT !.op = "logout"]
    /\ nops' = nops + 1
    /\ loc' = NoLocals
    /\ IF SignedInCheck(signed_in) # None
         THEN /\ ret' = Raise(SignedInCheck(signed_in))
              /\ reqs' = <<>>
              /\ UNCHANGED <<signed_in, session, s_closed, logged_out, cookie>>
         ELSE \E status \in {200, 500} :
                /\ ret' = Return(status)
                /\ reqs' = <<Get("logout")>>
                /\ cookie' \in Rotations(cookie)
                /\ IF LogoutAccepted(status)
                     THEN /\ s_closed' = TRUE
                          /\ signed_in' = FALSE
                          /\ session' = None
                          /\ logged_out' = TRUE
                     ELSE UNCHANGED <<signed_in, session, s_closed, logged_out>>
    /\ UNCHANGED <<pc, obj, hs_pc, herr, hlog, page, headers, grade_scales, grade_by_id,
                   now_year, srvvars, wide, peer>>

\* ---- get_student_data, get_student_name, get_student_data_JSON

StudentOps == {"get_student_data", "get_student_name", "get_student_data_JSON"}

\* __get_student_data, lines 3539-3572, on the 'Resultat' list of the answer:
\* None unless exactly one student matches.
get_student_data_of(r) ==
    IF Len(r) # 1 THEN NoneRec
    ELSE [id |-> r[1].Uid, first_name |-> r[1].Fornamn, last_name |-> r[1].Efternamn,
          person_nr |-> r[1].Personnummer, alive |-> ~r[1].Avliden]

\* What each of the three methods returns for a normalized person number:
\* get_student_name subscripts student_data (TypeError when it is None).
StudentOpReturn(name, person_nr) ==
    LET r == StudentLookup(person_nr)
        student_data == get_student_data_of(r)
    IN  CASE name = "get_student_data" -> Return(student_data)
          [] name = "get_student_name" ->
               IF student_data = NoneRec THEN Raise("TypeError")
               ELSE Return([first_name |-> student_data.first_name,
                            last_name |-> student_data.last_name])
          [] name = "get_student_data_JSON" -> Return(r)

\* The three methods without lines 315, 335 and 356: with them, a person
\* number that does not normalize would be sent to the service.
student_op_unchecked(name, active, person_nr_raw, year) ==
    IF SignedInCheck(active) # None
      THEN [ret |-> Raise(SignedInCheck(active)), reqs |-> <<>>]
      ELSE [ret |-> StudentOpReturn(name, validate_person_nr(person_nr_raw, year)),
            reqs |-> <<Get("student/filtrera")>>]

\* Lines 311-318, 331-338, 352-360: the signed-in check, the normalization
\* of the person number, then one GET of /studentinformation/student/filtrera.
student_op(name, active, person_nr_raw, year) ==
    LET person_nr == validate_person_nr(person_nr_raw, year)
    IN  IF SignedInCheck(active) # None
          THEN [ret |-> Raise(SignedInCheck(active)), reqs |-> <<>>]
        ELSE IF person_nr = NoneSeq
          THEN [ret |-> Raise("InvalidPersonNr"), reqs |-> <<>>]
        ELSE [ret |-> StudentOpReturn(name, person_nr), reqs |-> <<Get("student/filtrera")>>]

StudentOp ==
    /\ CanCall
    /\ \E name \in StudentOps, p \in PnrInputs :
         LET out == student_op(name, signed_in, p, now_year)
         IN  /\ call' = [NoCall EXCEPT !.op = name, !.person_nr_raw = p]
             /\ ret' = out.ret
             /\ reqs' = out.reqs
             /\ cookie' \in (IF out.reqs = <<>> THEN {cookie} ELSE Rotations(cookie))
    /\ nops' = nops + 1
    /\ loc' = NoLocals
    /\ UNCHANGED <<pc, SessionFields, now_year, srvvars, logged_out, wide, peer>>

\* ---- save_result

\* Line 226: the grade is one of the two grade-scale codes.
LooksLikeScale(grade_raw) == grade_raw \in {<<"A", "F">>, <<"P", "F">>}

\* Line 229 without its second half: with it, a letter grade against PF
\* would pass.
GradeScaleMismatchPassOnly(grade_raw, grade_scale) ==
    grade_raw = <<"P">> /\ grade_scale = <<"A", "F">>

\* Line 229: P against AF, or a grade that is a part of the string "ABCDE"
\* against PF.
GradeScaleMismatch(grade_raw, grade_scale) ==
    \/ grade_raw = <<"P">> /\ grade_scale = <<"A", "F">>
    \/ IsSubstring(grade_raw, <<"A", "B", "C", "D", "E">>) /\ grade_scale = <<"P", "F">>

\* The checks of lines 224-236 with person number and date ahead of the two
\* grade checks: with it, a call that fails several checks would report
\* another error.
save_result_validation_grade_last(active, person_nr_raw, result_date_raw, grade_raw, grade_scale, year) ==
    IF SignedInCheck(active) # None
      THEN [err |-> SignedInCheck(active), checked |-> <<"signed_in">>]
    ELSE IF validate_person_nr(person_nr_raw, year) = NoneSeq
      THEN [err |-> "InvalidPersonNr", checked |-> <<"signed_in", "person_nr">>]
    ELSE IF validate_date(result_date_raw) = NoneSeq
      THEN [err |-> "InvalidDate", checked |-> <<"signed_in", "person_nr", "date">>]
    ELSE IF grade_raw \in {<<"A", "F">>, <<"P", "F">>}
      THEN [err |-> "InvalidGradeLooksLikeScale",
            checked |-> <<"signed_in", "person_nr", "date", "grade_is_scale">>]
    ELSE IF \/ grade_raw = <<"P">> /\ grade_scale = <<"A", "F">>
            \/ IsSubstring(grade_raw, <<"A", "B", "C", "D", "E">>) /\ grade_scale = <<"P", "F">>
      THEN [err |-> "InvalidGradeMismatch",
            checked |-> <<"signed_in", "person_nr", "date", "grade_is_scale",
                          "grade_matches_scale">>]
    ELSE [err |-> None,
          checked |-> <<"signed_in", "person_nr", "date", "grade_is_scale",
                        "grade_matches_scale">>]

\* Lines 224-236: the checks save_result makes before its first request, in
\* the order of the code; err is the exception of the first check that fails
\* (None when all pass) and checked the checks evaluated.
save_result_validation(active, person_nr_raw, result_date_raw, grade_raw, grade_scale, year) ==
    IF SignedInCheck(active) # None
      THEN [err |-> SignedInCheck(active), checked |-> <<"signed_in">>]
    ELSE IF LooksLikeScale(grade_raw)
      THEN [err |-> "InvalidGradeLooksLikeScale", checked |-> <<"signed_in", "grade_is_scale">>]
    ELSE IF GradeScaleMismatch(grade_raw, grade_scale)
      THEN [err |-> "InvalidGradeMismatch",
            checked |-> <<"signed_in", "grade_is_scale", "grade_matches_scale">>]
    ELSE IF validate_person_nr(person_nr_raw, year) = NoneSeq
      THEN [err |-> "InvalidPersonNr",
            checked |-> <<"signed_in", "grade_is_scale", "grade_matches_scale", "person_nr">>]
    ELSE IF validate_date(result_date_raw) = NoneSeq
      THEN [err |-> "InvalidDate",
            checked |-> <<"signed_in", "grade_is_scale", "grade_matches_scale", "person_nr",
                          "date">>]
    ELSE [err |-> None,
          checked |-> <<"signed_in", "grade_is_scale", "grade_matches_scale", "person_nr",
                        "date">>]

\* Lines 223-236: the call and its validation; no request is issued here.
SaveResultCall ==
    /\ CanCall
    /\ \E c \in SaveCalls(wide) :
         LET v == save_result_validation(signed_in, c.person_nr_raw, c.result_date_raw,
                                         c.grade_raw, c.grade_scale, now_year)
         IN  /\ call' = c
             /\ IF v.err # None
                  THEN /\ ret' = Raise(v.err)
                       /\ pc' = "idle"
                       /\ loc' = [NoLocals EXCEPT !.checked = v.checked]
                  ELSE /\ ret' = NoReturn
                       /\ pc' = "sr_student"
                       /\ loc' = [NoLocals EXCEPT
                                    !.checked = v.checked,
                                    !.person_nr = validate_person_nr(c.person_nr_raw, now_year),
                                    !.result_date = validate_date(c.result_date_raw)]
    /\ nops' = nops + 1
    /\ reqs' = <<>>
    /\ UNCHANGED <<SessionFields, cookie, now_year, srvvars, logged_out, wide, peer>>

\* The operation in progress raises e.
OpRaise(e) == ret' = Raise(e) /\ pc' = "idle"

\* Line 238, and the subscript student_data['id'] of line 239: the student
\* is looked up; TypeError when no single student matched.
SrStudent ==
    /\ pc = "sr_student"
    /\ reqs' = Append(reqs, Get("student/filtrera"))
    /\ cookie' \in Rotations(cookie)
    /\ LET student_data == get_student_data_of(StudentLookup(loc.person_nr))
       IN  /\ loc' = [loc EXCEPT !.student_data = student_data]
           /\ IF student_data = NoneRec
                THEN OpRaise("TypeError")
                ELSE pc' = "sr_courses" /\ UNCHANGED ret
    /\ UNCHANGED <<call, nops, SessionFields, now_year, srvvars, logged_out, wide, peer>>

\* __get_student_courses, lines 3574-3591, on 'Tillfallesdeltaganden': the
\* current participations that carry a course code.
get_student_courses(r) ==
    LET kept == SelectSeq(r, LAMBDA course : course.Nuvarande /\ course.has_code)
    IN  [i \in 1..Len(kept) |->
           [id |-> kept[i].Uid, round_id |-> kept[i].UtbildningstillfalleUID,
            education_id |-> kept[i].UtbildningUID,
            instance_id |-> kept[i].UtbildningsinstansUID, code |-> kept[i].Utbildningskod]]

\* A match without the test of the course code: the first participation.
MatchCourseAnyCode(courses, course_code) == IF courses = <<>> THEN NoneRec ELSE courses[1]

\* next(x for x in courses if x['code'] == course_code): the first match,
\* NoneRec standing for StopIteration.
MatchCourse(courses, course_code) ==
    LET hits == SelectSeq(courses, LAMBDA x : x.code = course_code)
    IN  IF hits = <<>> THEN NoneRec ELSE hits[1]

\* Lines 239-243: the participations are fetched and the course is matched;
\* when the moment is the course itself, its instance is the target.
SrCourses ==
    /\ pc = "sr_courses"
    /\ reqs' = Append(reqs, Get("kurstillfallesdeltagande"))
    /\ cookie' \in Rotations(cookie)
    /\ LET student_course == MatchCourse(get_student_courses(Participations), call.course_code)
       IN  IF student_course = NoneRec
             THEN OpRaise("StopIteration") /\ UNCHANGED loc
             ELSE /\ UNCHANGED ret
                  /\ IF call.course_moment = student_course.code
                       THEN /\ pc' = "sr_results"
                            /\ loc' = [loc EXCEPT !.student_course = student_course,
                                                  !.course_moment_id = student_course.instance_id]
                       ELSE /\ pc' = "sr_moments"
                            /\ loc' = [loc EXCEPT !.student_course = student_course]
    /\ UNCHANGED <<call, nops, SessionFields, now_year, srvvars, logged_out, wide, peer>>

\* __get_student_course_moments, lines 3594-3602, on 'IngaendeMoment'.
get_student_course_moments(r) ==
    [i \in 1..Len(r) |->
       [course_moment_id |-> r[i].UtbildningsinstansUID, code |-> r[i].Utbildningskod,
        education_id |-> r[i].UtbildningUID]]

\* A loop without the test of line 247: the id of the last moment of the
\* round, whatever its code.
MatchMomentAnyCode(moments, course_moment) == IF moments = <<>> THEN "unbound" ELSE moments[Len(moments)].course_moment_id

\* The loop of lines 246-248: the id of the last moment with the code, or
\* "unbound" when the loop assigns nothing.
MatchMoment(moments, course_moment) ==
    LET hits == SelectSeq(moments, LAMBDA x : x.code = course_moment)
    IN  IF hits = <<>> THEN "unbound" ELSE hits[Len(hits)].course_moment_id

\* Lines 244-248.
SrMoments ==
    /\ pc = "sr_moments"
    /\ reqs' = Append(reqs, Get("moment"))
    /\ cookie' \in Rotations(cookie)
    /\ loc' = [loc EXCEPT !.course_moment_id =
                 MatchMoment(get_student_course_moments(Moments), call.course_moment)]
    /\ pc' = "sr_results"
    /\ UNCHANGED <<call, ret, nops, SessionFields, now_year, srvvars, logged_out, wide, peer>>

\* __get_grade_scale_by_id / __get_grade_scale_by_code, lines 3523-3528:
\* the first scale with the id or code, NoneRec standing for StopIteration.
get_grade_scale_by_id(scales, grade_scale_id) ==
    LET hits == SelectSeq(scales, LAMBDA gs : gs.id = grade_scale_id)
    IN  IF hits = <<>> THEN NoneRec ELSE hits[1]

get_grade_scale_by_code(scales, grade_scale_code) ==
    LET hits == SelectSeq(scales, LAMBDA gs : gs.code = grade_scale_code)
    IN  IF hits = <<>> THEN NoneRec ELSE hits[1]

\* Line 253: next(grade for grade in grade_scale['grades'] if grade['code'] == grade_raw).
GradeOfScale(grade_scale, grade_raw) ==
    LET hits == SelectSeq(grade_scale.grades, LAMBDA grade : grade.code = grade_raw)
    IN  IF hits = <<>> THEN NoneRec ELSE hits[1]

\* The instances the service lists in 'ResultatPaUtbildningar': those with a
\* pending or an attested result.
ListedInstances(pend, att) ==
    SelectSeq(InstanceOrder, LAMBDA i : pend[i] # NoneRec \/ att[i] # NoneRec)

\* __get_student_course_results, lines 3605-3630, on the service's result
\* set of the round: per listed instance the pending record ('Arbetsunderlag')
\* and the attested record ('SenastAttesteradeResultat'), each None when absent.
get_student_course_results(pend, att) ==
    LET listed == ListedInstances(pend, att)
    IN  [id |-> "rs1",
         results |->
           [k \in 1..Len(listed) |->
              LET i == listed[k]
              IN  [education_id |-> EducationOf(i),
                   pending |->
                     IF pend[i] = NoneRec THEN NoneRec
                     ELSE [id |-> pend[i].id, moment_id |-> i, grade |-> pend[i].grade,
                           date |-> pend[i].date, grade_scale |-> pend[i].scale,
                           last_modified |-> pend[i].stamp],
                   attested |->
                     IF att[i] = NoneRec THEN NoneRec
                     ELSE [id |-> att[i].id, moment_id |-> i, grade |-> att[i].grade,
                           date |-> att[i].date, grade_scale |-> att[i].scale]]]]

\* Lines 3615 and 3618: the subscript ['Examinationsdatum'] of a pending
\* record raises KeyError when the record has no date.
ResultsParse(pend) == \A i \in Instances : pend[i] # NoneRec => pend[i].date # NoneSeq

\* Line 250: the result set of the round is fetched.
SrResults ==
    /\ pc = "sr_results"
    /\ reqs' = Append(reqs, Get("studieresultat"))
    /\ cookie' \in Rotations(cookie)
    /\ IF ResultsParse(pending)
         THEN /\ loc' = [loc EXCEPT !.student_course_results =
                                       get_student_course_results(pending, attested)]
              /\ pc' = "sr_write"
              /\ UNCHANGED ret
         ELSE OpRaise("KeyError") /\ UNCHANGED loc
    /\ UNCHANGED <<call, nops, SessionFields, now_year, srvvars, logged_out, wide, peer>>

\* A token read once, when the constructor returned, and kept.
get_xsrf_token_cached(jar) == 1

\* __get_xsrf_token, lines 3491-3493: the XSRF-TOKEN cookie of the jar, 0
\* standing for StopIteration when the jar has none.
get_xsrf_token(jar) == jar

\* The headers of lines 255-258.
SaveHeaders == {"Accept", "Content-Type", "X-XSRF-TOKEN", "Referer"}

\* A scan that fell back on the attested record of the target: with it, an
\* attested result would be sent for update.
PreviousResultOrAttested(results, course_moment_id) ==
    LET drafts == SelectSeq(results, LAMBDA result :
                    /\ result.pending # NoneRec
                    /\ result.pending.moment_id = course_moment_id)
        final == SelectSeq(results, LAMBDA result :
                    /\ result.attested # NoneRec
                    /\ result.attested.moment_id = course_moment_id)
    IN  IF drafts # <<>> THEN drafts[1].pending
        ELSE IF final # <<>>
          THEN [id |-> final[1].attested.id, moment_id |-> course_moment_id,
                grade |-> final[1].attested.grade, date |-> final[1].attested.date,
                grade_scale |-> final[1].attested.grade_scale, last_modified |-> 1]
        ELSE NoneRec

\* A scan that found nothing: with it, every write would be a create.
PreviousResultNone(results, course_moment_id) == NoneRec

\* A scan that took the first pending record whatever its moment: with it,
\* the draft of another component would be updated.
PreviousResultAny(results, course_moment_id) ==
    LET hits == SelectSeq(results, LAMBDA result : result.pending # NoneRec)
    IN  IF hits = <<>> THEN NoneRec ELSE hits[1].pending

\* Lines 260-266: the first pending record of the fetched result set whose
\* moment is the target, NoneRec when there is none.
PreviousResult(results, course_moment_id) ==
    LET hits == SelectSeq(results, LAMBDA result :
                    /\ result.pending # NoneRec
                    /\ result.pending.moment_id = course_moment_id)
    IN  IF hits = <<>> THEN NoneRec ELSE hits[1].pending

\* Lines 252-294: the request save_result is about to send, or the exception
\* raised before it is sent.  An update (PUT) when a pending record of the
\* target was fetched, else a create (POST).  An unbound course_moment_id is
\* read, and raises, in the comparison of line 264 when some fetched result
\* has a pending record, and in post_data (line 288) when none has.
save_result_request(args, l, scales, jar) ==
    LET grade_scale == get_grade_scale_by_code(scales, args.grade_scale)
        grade == GradeOfScale(grade_scale, args.grade_raw)
        results == l.student_course_results.results
        previous_result == PreviousResult(results, l.course_moment_id)
    IN  IF grade_scale = NoneRec THEN [err |-> "StopIteration", req |-> NoneRec]
        ELSE IF grade = NoneRec THEN [err |-> "StopIteration", req |-> NoneRec]
        ELSE IF get_xsrf_token(jar) = 0 THEN [err |-> "StopIteration", req |-> NoneRec]
        ELSE IF l.course_moment_id = "unbound"
          THEN [err |-> "UnboundLocalError", req |-> NoneRec]
        ELSE IF previous_result # NoneRec
          THEN [err |-> None,
                req |-> [m |-> "PUT", url |-> "studieresultat/uppdatera", hdr |-> SaveHeaders,
                         xsrf |-> get_xsrf_token(jar), jar |-> jar,
                         body |-> [ResultatUID |-> previous_result.id,
                                   Betygsgrad |-> grade.id,
                                   BetygsskalaID |-> grade_scale.id,
                                   Examinationsdatum |-> l.result_date,
                                   SenasteResultatandring |-> previous_result.last_modified]]]
        ELSE [err |-> None,
              req |-> [m |-> "POST", url |-> "studieresultat/skapa", hdr |-> SaveHeaders,
                       xsrf |-> get_xsrf_token(jar), jar |-> jar,
                       body |-> [StudieresultatUID |-> l.student_course_results.id,
                                 UtbildningsinstansUID |-> l.course_moment_id,
                                 Betygsgrad |-> grade.id,
                                 BetygsskalaID |-> grade_scale.id,
                                 Examinationsdatum |-> l.result_date]]]

\* The service takes a create only for an instance of the round that has no
\* pending result, and an update only of the pending result it names, with
\* the last-modification stamp that result has now.
ServiceTakes(req, pend) ==
    IF req.m = "POST"
      THEN /\ req.body.UtbildningsinstansUID \in Instances
           /\ pend[req.body.UtbildningsinstansUID] = NoneRec
      ELSE \E i \in Instances :
             /\ pend[i] # NoneRec
             /\ pend[i].id = req.body.ResultatUID
             /\ pend[i].stamp = req.body.SenasteResultatandring
             /\ pend[i].stamp < MaxStamp

\* The Uid the service gives the draft a create adds for an instance.
CreatedId(inst) == IF inst = "i0" THEN "n0" ELSE "n1"

\* The pending results after the service took the request: a create adds a
\* draft with a first stamp, an update changes the draft and its stamp.
ServiceApply(req, pend) ==
    IF req.m = "POST"
      THEN [pend EXCEPT ![req.body.UtbildningsinstansUID] =
              [id |-> CreatedId(req.body.UtbildningsinstansUID),
               grade |-> req.body.Betygsgrad, scale |-> req.body.BetygsskalaID,
               date |-> req.body.Examinationsdatum, stamp |-> 1, status |-> 1]]
      ELSE [i \in Instances |->
              IF pend[i] # NoneRec /\ pend[i].id = req.body.ResultatUID
                THEN [pend[i] EXCEPT !.grade = req.body.Betygsgrad,
                                     !.scale = req.body.BetygsskalaID,
                                     !.date = req.body.Examinationsdatum,
                                     !.stamp = @ + 1]
                ELSE pend[i]]

\* Line 297: the exception raised when the decoded answer has no 'Resultat'.
\* Its message names the person number, the moment, the grade and the date
\* as the caller gave them.
WriteRejected(args) ==
    [kind |-> "raise", err |-> "WriteRejected",
     val |-> <<args.person_nr_raw, args.course_moment, args.grade_raw, args.result_date_raw>>]

\* The bodies the answer to the write may have: JSON with 'Resultat', JSON
\* without it (the service's error message), or no JSON at all (the error
\* page of a gateway).
WriteAnswers == {"resultat", "error", "not_json"}

\* What lines 297 and 299 make of the answer to the write: r.json() raises
\* when the body is no JSON, before 'Resultat' is looked for.
WriteOutcome(args, answer) ==
    CASE answer = "not_json" -> Raise("JSONDecodeError")
      [] answer = "resultat" -> Return(TRUE)
      [] OTHER -> WriteRejected(args)

\* Lines 252-299: the grade is resolved, the headers are built with the XSRF
\* token of the jar, the request is sent, the service takes or rejects it,
\* and the answer decides between True and the exception.  The service
\* answers with 'Resultat' when it took the write and with its error message
\* when it did not; when the body that reaches the caller is no JSON, the
\* page of a gateway, the service may have taken the write all the same.
SrWrite ==
    /\ pc = "sr_write"
    /\ LET out == save_result_request(call, loc, grade_scales, cookie)
       IN  IF out.err # None
             THEN /\ OpRaise(out.err)
                  /\ UNCHANGED <<loc, reqs, cookie, pending>>
             ELSE \E answer \in WriteAnswers, took \in BOOLEAN :
                    /\ took => ServiceTakes(out.req, pending)
                    /\ answer = "resultat" => took
                    /\ answer = "error" => ~took
                    /\ reqs' = Append(reqs, out.req)
                    /\ pending' = IF took THEN ServiceApply(out.req, pending) ELSE pending
                    /\ loc' = [loc EXCEPT !.r = answer]
                    /\ ret' = WriteOutcome(call, answer)
                    /\ pc' = "idle"
                    /\ cookie' \in Rotations(cookie)
    /\ UNCHANGED <<call, nops, SessionFields, now_year, attested, logged_out, wide, peer>>

\* Another user of the service changes the draft of an instance to grade C
\* while save_result is between its fetch of line 250 and its write: the
\* service gives the draft a new last-modification stamp.
OtherUserEdits ==
    /\ pc = "sr_write"
    /\ \E i \in Instances :
         /\ pending[i] # NoneRec
         /\ pending[i].stamp < MaxStamp
         /\ pending' = [pending EXCEPT ![i] = [@ EXCEPT !.grade = 13, !.scale = 1,
                                                        !.stamp = @ + 1]]
    /\ UNCHANGED <<hsvars, now_year, opvars, attested, logged_out, wide, peer>>

\* An examiner attests the dated draft of an instance while save_result is
\* between its fetch and its write: the draft becomes the attested result.
OtherUserAttests ==
    /\ pc = "sr_write"
    /\ \E i \in Instances :
         /\ pending[i] # NoneRec
         /\ pending[i].date # NoneSeq
         /\ attested' = [attested EXCEPT ![i] =
                           [id |-> InitialAttested(i).id, grade |-> pending[i].grade,
                            scale |-> pending[i].scale, date |-> pending[i].date]]
         /\ pending' = [pending EXCEPT ![i] = NoneRec]
    /\ UNCHANGED <<hsvars, now_year, opvars, logged_out, wide, peer>>

SaveResult == SaveResultCall \/ SrStudent \/ SrCourses \/ SrMoments \/ SrResults \/ SrWrite

\* ---- participants_JSON

\* The headers of lines 530-533.
ParticipantsHeaders == {"Accept", "Content-Type", "X-XSRF-TOKEN", "Origin"}

\* Lines 528-604: the signed-in check, the headers with the XSRF token of the
\* jar, one PUT; the decoded body on status 200, else the response.
participants_JSON(active, jar, status) ==
    IF SignedInCheck(active) # None
      THEN [ret |-> Raise(SignedInCheck(active)), reqs |-> <<>>]
    ELSE IF get_xsrf_token(jar) = 0
      THEN [ret |-> Raise("StopIteration"), reqs |-> <<>>]
    ELSE [ret |-> Return(status),
          reqs |-> << [m |-> "PUT", url |-> "deltagare/kurstillfalle",
                       hdr |-> ParticipantsHeaders, xsrf |-> get_xsrf_token(jar),
                       jar |-> jar, body |-> [utbildningstillfalleUID |-> "k1"]] >>]

Participants ==
    /\ CanCall
    /\ \E status \in {200, 500} :
         LET out == participants_JSON(signed_in, cookie, status)
         IN  /\ call' = [NoCall EXCEPT !.op = "participants_JSON"]
             /\ ret' = out.ret
             /\ reqs' = out.reqs
             /\ cookie' \in (IF out.reqs = <<>> THEN {cookie} ELSE Rotations(cookie))
    /\ nops' = nops + 1
    /\ loc' = NoLocals
    /\ UNCHANGED <<pc, SessionFields, now_year, srvvars, logged_out, wide, peer>>

\* ---- get_results

\* Lines 157-162: the checks get_results makes before its first request.
get_results_validation(active, person_nr_raw, year) ==
    IF SignedInCheck(active) # None THEN SignedInCheck(active)
    ELSE IF validate_person_nr(person_nr_raw, year) = NoneSeq THEN "InvalidPersonNr"
    ELSE None

GetResultsCall ==
    /\ CanCall
    /\ \E p \in PnrInputs, cc \in CourseInputs :
         LET err == get_results_validation(signed_in, p, now_year)
         IN  /\ call' = [NoCall EXCEPT !.op = "get_results", !.person_nr_raw = p,
                                       !.course_code = cc]
             /\ IF err # None
                  THEN /\ ret' = Raise(err)
                       /\ pc' = "idle"
                       /\ loc' = NoLocals
                  ELSE /\ ret' = NoReturn
                       /\ pc' = "gr_student"
                       /\ loc' = [NoLocals EXCEPT !.person_nr = validate_person_nr(p, now_year)]
    /\ nops' = nops + 1
    /\ reqs' = <<>>
    /\ UNCHANGED <<SessionFields, cookie, now_year, srvvars, logged_out, wide, peer>>

\* Line 164, and the subscript student_data['id'] of line 166.
GrStudent ==
    /\ pc = "gr_student"
    /\ reqs' = Append(reqs, Get("student/filtrera"))
    /\ cookie' \in Rotations(cookie)
    /\ LET student_data == get_student_data_of(StudentLookup(loc.person_nr))
       IN  /\ loc' = [loc EXCEPT !.student_data = student_data]
           /\ IF student_data = NoneRec
                THEN OpRaise("TypeError")
                ELSE pc' = "gr_courses" /\ UNCHANGED ret
    /\ UNCHANGED <<call, nops, SessionFields, now_year, srvvars, logged_out, wide, peer>>

\* Line 166.
GrCourses ==
    /\ pc = "gr_courses"
    /\ reqs' = Append(reqs, Get("kurstillfallesdeltagande"))
    /\ cookie' \in Rotations(cookie)
    /\ LET student_course == MatchCourse(get_student_courses(Participations), call.course_code)
       IN  IF student_course = NoneRec
             THEN OpRaise("StopIteration") /\ UNCHANGED loc
             ELSE /\ UNCHANGED ret
                  /\ pc' = "gr_attested"
                  /\ loc' = [loc EXCEPT !.student_course = student_course]
    /\ UNCHANGED <<call, nops, SessionFields, now_year, srvvars, logged_out, wide, peer>>

\* A scan without the test of line 175: the results of the first group,
\* whatever its education.
AttestedOfAnyCourse(groups, education_id) == IF groups = <<>> THEN <<>> ELSE groups[1].Studentresultat

\* Lines 174-177: the 'Studentresultat' of the first group of the education,
\* <<>> when there is none (None and the empty list are skipped alike by
\* line 180).
AttestedOfCourse(groups, education_id) ==
    LET hits == SelectSeq(groups, LAMBDA course : course.KursUID = education_id)
    IN  IF hits = <<>> THEN <<>> ELSE hits[1].Studentresultat

\* A dict that kept the entry a key already has: with it, an attested result
\* would hide the draft of the same component.
SetItemIfAbsent(results, key, d) == results @@ (key :> d)

\* results[key] = d of lines 186 and 202: the entry of the key is replaced.
SetItem(results, key, d) == (key :> d) @@ results

\* Lines 181-188: the attested records are entered in order, a later record
\* of a code replacing an earlier one; a record without one of the three keys
\* raises KeyError inside the try and is skipped.
RECURSIVE AddAttested(_, _)
AddAttested(results, records) ==
    IF records = <<>> THEN results
    ELSE LET result == Head(records)
             complete == {"Utbildningskod", "Betygsgradskod", "Examinationsdatum"}
                            \subseteq result.keys
         IN  AddAttested(
               IF complete
                 THEN SetItem(results, result.Utbildningskod,
                              [grade |-> result.Betygsgradskod, status |-> <<"attested">>,
                               date |-> result.Examinationsdatum])
                 ELSE results,
               Tail(records))

\* Lines 168-188.
GrAttested ==
    /\ pc = "gr_attested"
    /\ reqs' = Append(reqs, Get("studentresultat/attesterade"))
    /\ cookie' \in Rotations(cookie)
    /\ loc' = [loc EXCEPT !.results =
                 AddAttested(<<>>, AttestedOfCourse(AttestedAnswer(attested),
                                                    loc.student_course.education_id))]
    /\ pc' = "gr_pending"
    /\ UNCHANGED <<call, ret, nops, SessionFields, now_year, srvvars, logged_out, wide, peer>>

\* Line 191: the pending results are fetched; line 203 returns when the loop
\* of line 193 has nothing to visit.
GrPending ==
    /\ pc = "gr_pending"
    /\ reqs' = Append(reqs, Get("resultat/resultat"))
    /\ cookie' \in Rotations(cookie)
    /\ LET todo == PendingAnswer(pending)
       IN  /\ loc' = [loc EXCEPT !.todo = todo]
           /\ IF todo = <<>>
                THEN ret' = Return(loc.results) /\ pc' = "idle"
                ELSE UNCHANGED ret /\ pc' = "gr_instance"
    /\ UNCHANGED <<call, nops, SessionFields, now_year, srvvars, logged_out, wide, peer>>

\* Lines 195-201: the entry of a pending result; status is "pending(N)" with
\* N the process status, date "0" when the result has no date.
PendingEntry(result) ==
    [grade |-> result.Kod,
     status |-> <<"pending", result.ProcessStatus>>,
     date |-> IF result.has_date THEN result.Examinationsdatum ELSE <<"0">>]

\* Lines 193-203, one turn of the loop: the instance of the pending result is
\* fetched for its code and the entry is written under it; line 203 returns
\* after the last turn.
GrInstance ==
    /\ pc = "gr_instance"
    /\ reqs' = Append(reqs, Get("utbildningsinstans"))
    /\ cookie' \in Rotations(cookie)
    /\ LET result == Head(loc.todo)
           code == InstanceCode(result.UtbildningsinstansUID)
           results == SetItem(loc.results, code, PendingEntry(result))
       IN  /\ loc' = [loc EXCEPT !.results = results, !.todo = Tail(loc.todo)]
           /\ IF Tail(loc.todo) = <<>>
                THEN ret' = Return(results) /\ pc' = "idle"
                ELSE UNCHANGED ret /\ pc' = "gr_instance"
    /\ UNCHANGED <<call, nops, SessionFields, now_year, srvvars, logged_out, wide, peer>>

GetResults == GetResultsCall \/ GrStudent \/ GrCourses \/ GrAttested \/ GrPending \/ GrInstance

\* ------------------------------------------------------------ specification

Next ==
    \/ Handshake
    \/ Accessor \/ AllGradingScale \/ Logout \/ StudentOp \/ Participants
    \/ SaveResult
    \/ GetResults
    \/ OtherUserEdits \/ OtherUserAttests

Spec == Init /\ [][Next]_vars

\* The requests of a handshake that succeeds, in order.
FullHandshake ==
    <<"GET loggain", "GET shiblogin", "GET idp", "POST sso", "POST credentials", "POST saml",
      "GET betygsskala">>

\* The state in which __init__ has returned (line 135), from which the calls
\* of save_result range over every combination of the arguments, no other
\* user acting on the service meanwhile.
InitWide ==
    /\ obj = "live"
    /\ hs_pc = "done"
    /\ herr = None
    /\ hlog = FullHandshake
    /\ page = {"ok"}
    /\ signed_in = TRUE
    /\ session = "s"
    /\ s_closed = FALSE
    /\ headers = AcceptHeader
    /\ grade_scales = Catalog
    /\ grade_by_id = GradeIds(Catalog)
    /\ cookie = 1
    /\ now_year \in Years
    /\ pc = "idle"
    /\ call = NoCall
    /\ loc = NoLocals
    /\ reqs = <<>>
    /\ ret = NoReturn
    /\ nops = 0
    /\ \E P \in SUBSET Instances :
         pending = [i \in Instances |-> IF i \in P THEN InitialPending(i) ELSE NoneRec]
    /\ \E A \in SUBSET {"i1"} :
         attested = [i \in Instances |-> IF i \in A THEN InitialAttested(i) ELSE NoneRec]
    /\ logged_out = FALSE
    /\ wide = TRUE
    /\ peer = NoPeer

NextWide ==
    \/ Accessor \/ AllGradingScale \/ Logout \/ StudentOp \/ Participants
    \/ SaveResult
    \/ GetResults

SpecWide == InitWide /\ [][NextWide]_vars

\* The state in which __init__ has returned, from which save_result is
\* called repeatedly with the selected arguments, no other user acting on the
\* service and no other method being called meanwhile.
InitRetry ==
    /\ obj = "live"
    /\ hs_pc = "done"
    /\ herr = None
    /\ hlog = FullHandshake
    /\ page = {"ok"}
    /\ signed_in = TRUE
    /\ session = "s"
    /\ s_closed = FALSE
    /\ headers = AcceptHeader
    /\ grade_scales = Catalog
    /\ grade_by_id = GradeIds(Catalog)
    /\ cookie = 1
    /\ now_year \in Years
    /\ pc = "idle"
    /\ call = NoCall
    /\ loc = NoLocals
    /\ reqs = <<>>
    /\ ret = NoReturn
    /\ nops = 0
    /\ \E P \in SUBSET Instances :
         pending = [i \in Instances |-> IF i \in P THEN InitialPending(i) ELSE NoneRec]
    /\ \E A \in SUBSET {"i1"} :
         attested = [i \in Instances |-> IF i \in A THEN InitialAttested(i) ELSE NoneRec]
    /\ logged_out = FALSE
    /\ wide = FALSE
    /\ peer = NoPeer

NextRetry == SaveResult

SpecRetry == InitRetry /\ [][NextRetry]_vars

\* A second worker, with a session of its own, calls save_result with the
\* arguments of the call the first worker has in progress: lines 224-248 give
\* it the locals they gave the first worker, the static data of the service
\* being the same, and it has its fetch of line 250 ahead.
PeerCall ==
    /\ peer.pc = "idle"
    /\ call.op = "save_result" /\ pc \in {"sr_results", "sr_write"}
    /\ peer' = [pc |-> "sr_results", call |-> call,
                loc |-> [loc EXCEPT !.student_course_results = NoneRec],
                reqs |-> <<>>, ret |-> NoReturn]
    /\ UNCHANGED <<hsvars, now_year, opvars, srvvars, logged_out, wide>>

\* Line 250 on the second worker's session.
PeerResults ==
    /\ peer.pc = "sr_results"
    /\ IF ResultsParse(pending)
         THEN peer' = [peer EXCEPT !.pc = "sr_write",
                                   !.loc.student_course_results =
                                      get_student_course_results(pending, attested)]
         ELSE peer' = [peer EXCEPT !.pc = "done", !.ret = Raise("KeyError")]
    /\ UNCHANGED <<hsvars, now_year, opvars, srvvars, logged_out, wide>>

\* Lines 252-299 on the second worker's session, whose jar holds a token.
PeerWrite ==
    /\ peer.pc = "sr_write"
    /\ LET out == save_result_request(peer.call, peer.loc, grade_scales, 1)
       IN  IF out.err # None
             THEN /\ peer' = [peer EXCEPT !.pc = "done", !.ret = Raise(out.err)]
                  /\ UNCHANGED pending
             ELSE \E answer \in WriteAnswers, took \in BOOLEAN :
                    /\ took => ServiceTakes(out.req, pending)
                    /\ answer = "resultat" => took
                    /\ answer = "error" => ~took
                    /\ pending' = IF took THEN ServiceApply(out.req, pending) ELSE pending
                    /\ peer' = [peer EXCEPT !.pc = "done", !.reqs = <<out.req>>,
                                            !.loc.r = answer,
                                            !.ret = WriteOutcome(peer.call, answer)]
    /\ UNCHANGED <<hsvars, now_year, opvars, attested, logged_out, wide>>

PeerSaveResult == PeerCall \/ PeerResults \/ PeerWrite

\* Two workers, one session each: save_result on the first session and,
\* concurrently, the same save_result on the second.
NextPair == SaveResult \/ PeerSaveResult

SpecPair == InitRetry /\ [][NextPair]_vars

\* The strings the normalizers are given: a person number is an optional
\* century, a two-digit year, month and day, an optional separator and a
\* suffix (of four word characters, too short, or with more after it); a date
\* is an optional century, a two-digit year, month and day with optional
\* hyphens; and strings of neither form.
Centuries == { <<>>, <<"1", "9">>, <<"2", "0">> }

PnrYears == { <<"0", "0">>, <<"0", "5">>, <<"2", "1">>, <<"2", "2">>, <<"4", "6">>, <<"9", "9">> }

PnrMonthDay == <<"1", "2", "1", "2">>

PnrSeparators == { <<>>, <<"-">>, <<"+">> }

PnrSuffixes == { <<"1", "2", "1", "2">>, <<"T", "2", "A", "_">> }

PnrTails == PnrSuffixes \cup { <<"1", "2">>, <<"1", "2", "1", "2", "X", "X">> }

PersonNrStrings ==
    { c \o y \o PnrMonthDay \o sp \o t :
        c \in Centuries, y \in PnrYears, sp \in PnrSeparators, t \in PnrTails } \cup {PnrBad}

DateYears == { <<"1", "9">>, <<"9", "9">> }

Hyphens == { <<>>, <<"-">> }

DateStrings ==
    { c \o y \o h1 \o <<"0", "3">> \o h2 \o <<"1", "4">> :
        c \in Centuries, y \in DateYears, h1 \in Hyphens, h2 \in Hyphens }
      \cup { DateBad, <<"1", "9", "0", "3">>, DateOk \o <<"x", "y", "z">> }

\* The years the clock may show when a person number is normalized.
ClockYears == {2024, 2026, 2105}

\* How often the output of the normalizers is given to them again.
MaxPasses == 1

\* The state in which __init__ has returned and a method is about to
\* normalize the person number and the date it was called with.
InitNorm ==
    /\ obj = "live"
    /\ hs_pc = "done"
    /\ herr = None
    /\ hlog = FullHandshake
    /\ page = {"ok"}
    /\ signed_in = TRUE
    /\ session = "s"
    /\ s_closed = FALSE
    /\ headers = AcceptHeader
    /\ grade_scales = Catalog
    /\ grade_by_id = GradeIds(Catalog)
    /\ cookie = 1
    /\ now_year \in ClockYears
    /\ pc = "validate_person_nr"
    /\ \E p \in PersonNrStrings, d \in DateStrings :
         call = [NoCall EXCEPT !.op = "validate", !.person_nr_raw = p, !.result_date_raw = d]
    /\ loc = NoLocals
    /\ reqs = <<>>
    /\ ret = NoReturn
    /\ nops = 0
    /\ pending = [i \in Instances |-> NoneRec]
    /\ attested = [i \in Instances |-> NoneRec]
    /\ logged_out = FALSE
    /\ wide = TRUE
    /\ peer = NoPeer

\* person_nr = self.__validate_person_nr(person_nr_raw)
ValidatePersonNr ==
    /\ pc = "validate_person_nr"
    /\ loc' = [loc EXCEPT !.person_nr = validate_person_nr(call.person_nr_raw, now_year)]
    /\ pc' = "validate_date"
    /\ UNCHANGED <<hsvars, now_year, call, reqs, ret, nops, srvvars, logged_out, wide, peer>>

\* result_date = self.__validate_date(result_date_raw)
ValidateDate ==
    /\ pc = "validate_date"
    /\ loc' = [loc EXCEPT !.result_date = validate_date(call.result_date_raw)]
    /\ pc' = "validated"
    /\ UNCHANGED <<hsvars, now_year, call, reqs, ret, nops, srvvars, logged_out, wide, peer>>

\* The canonical person number, and the canonical date if there is one, are
\* the arguments of a further call.
ValidateAgain ==
    /\ pc = "validated"
    /\ nops < MaxPasses
    /\ loc.person_nr # NoneSeq
    /\ call' = [call EXCEPT !.person_nr_raw = loc.person_nr,
                            !.result_date_raw = IF loc.result_date # NoneSeq THEN loc.result_date
                                                ELSE call.result_date_raw]
    /\ loc' = NoLocals
    /\ nops' = nops + 1
    /\ pc' = "validate_person_nr"
    /\ UNCHANGED <<hsvars, now_year, reqs, ret, srvvars, logged_out, wide, peer>>

NextNorm == ValidatePersonNr \/ ValidateDate \/ ValidateAgain

SpecNorm == InitNorm /\ [][NextNorm]_vars

\* ------------------------------------------------------------- properties

\* The requests the constructor has issued.
Issued == {hlog[i] : i \in 1..Len(hlog)}

\* The request the constructor issued last.
LastIssued == IF hlog = <<>> THEN None ELSE hlog[Len(hlog)]

\* A public method has been called and has ended.
Ended == obj = "live" /\ pc = "idle" /\ call.op # None /\ ret.kind # "none"

\* The call that has ended is the logout that was answered 200.
SignedOutNow == call.op = "logout" /\ ret.kind = "return"

\* C1: every public operation called on an inactive session (signed_in
\* false) fails with 'Not signed in' and issues no request.  The only calls
\* on an inactive session are those made after a logout answered 200: the
\* constructor returns no object unless it set signed_in.
C1_InactiveCallsFail ==
    (Ended /\ ~signed_in /\ ~SignedOutNow) => (ret.err = "NotSignedIn" /\ reqs = <<>>)

\* C2: signed_in implies that the constructor returned, having issued all
\* its requests without an exception, that the transport is set and that
\* the whole catalog is loaded and indexed; a constructor that raised has
\* left no object, signed_in false and no transport.
C2_ActiveMeansHandshakeDone ==
    /\ signed_in =>
         /\ obj = "live" /\ hs_pc = "done" /\ herr = None
         /\ hlog = FullHandshake
         /\ session = "s" /\ ~s_closed
         /\ grade_scales = Catalog /\ grade_by_id = GradeIds(Catalog)
    /\ herr # None => (obj = "failed" /\ ~signed_in /\ session = None)
    /\ obj = "live" => (hlog = FullHandshake /\ herr = None /\ grade_scales = Catalog)

C2_ActiveSessionInUse == signed_in /\ session = "s" /\ grade_scales = Catalog /\ nops > 0

\* C3: when the answer to the credential POST has no action form, the
\* constructor raises the invalid-credentials exception, no other kind, and
\* has issued neither the SAML POST nor the grade-scale GET.
C3_NoActionFormIsInvalidCredentials ==
    (LastIssued = "POST credentials" /\ "action" \notin page) =>
        /\ obj = "failed" /\ herr = "InvalidCredentials"
        /\ herr \notin {"WriteRejected", "NotTeacher", "AttributeError"}
        /\ Issued \cap {"POST saml", "GET betygsskala"} = {}
        /\ ~signed_in

C3_NoActionFormSeen ==
    LastIssued = "POST credentials" /\ page = {"RelayState", "SAMLResponse"} /\ obj = "failed"

\* C4: when the page the SAML POST returns holds the marker of a user
\* unknown to Ladok, the constructor raises the not-a-teacher exception,
\* which is not the invalid-credentials one, the grade scales are not
\* requested and signed_in stays false.
C4_MarkerIsUnauthorized ==
    (LastIssued = "POST saml" /\ "marker" \in page) =>
        /\ obj = "failed" /\ herr = "NotTeacher"
        /\ herr # "InvalidCredentials"
        /\ "GET betygsskala" \notin Issued
        /\ ~signed_in /\ session = None

C4_MarkerSeen == LastIssued = "POST saml" /\ "marker" \in page /\ herr = "NotTeacher"

\* C5: when the login form lacks the form action, the login token or the
\* execution token, the constructor raises an exception that is not the
\* invalid-credentials one, and the credentials are not posted.
C5_FormMismatchPostsNothing ==
    (LastIssued = "POST sso" /\ page # LoginFormFragments) =>
        /\ obj = "failed" /\ herr = "AttributeError"
        /\ herr # "InvalidCredentials"
        /\ "POST credentials" \notin Issued
        /\ ~signed_in

C5_TokenMissing ==
    LastIssued = "POST sso" /\ page = {"action", "lt"} /\ obj = "failed"

\* C6: after a logout answered 200, signed_in is false and stays false, the
\* transport is closed and unset, and every call that ends later, a second
\* logout included, has failed with 'Not signed in'.
C6_SignedOutForGood ==
    logged_out =>
        /\ ~signed_in /\ session = None /\ s_closed
        /\ (Ended /\ ~SignedOutNow) => ret.err = "NotSignedIn"

\* The service rejected the call that has ended: a write answered without
\* 'Resultat', a read answered with an error body or a body that is no
\* JSON, a participants query or a logout answered with a status other
\* than 200.
Rejected ==
    /\ Ended
    /\ \/ ret.err = "WriteRejected"
       \/ call.op \in Accessors /\ reqs # <<>> /\ ret # Return("ok")
       \/ call.op \in {"participants_JSON", "logout"} /\ ret.kind = "return" /\ ret.val # 200

\* C7, as amended: a call the service rejects fails or returns the error,
\* and the session stays as it was: signed_in true, the transport set and
\* open, and the next call passes the signed-in check.  Nothing but a logout
\* answered 200 clears signed_in.
C7_RejectionKeepsSession ==
    /\ [](Rejected => (signed_in /\ session = "s" /\ ~s_closed))
    /\ []((obj = "live" /\ ~signed_in) => logged_out)
    /\ [][(Rejected /\ nops' = nops + 1) => ret'.err # "NotSignedIn"]_vars

C7_WriteRejectedSeen == Rejected /\ ret.err = "WriteRejected" /\ signed_in

\* C7, as stated: a call the service rejects leaves signed_in false.
C7_RejectionInvalidates == Rejected => ~signed_in

\* The person number, or the date, of the call does not normalize.
BadPersonNr == validate_person_nr(call.person_nr_raw, now_year) = NoneSeq

BadDate == validate_date(call.result_date_raw) = NoneSeq

\* One of the two grade checks of save_result fails for the call.
BadGrade ==
    LooksLikeScale(call.grade_raw) \/ GradeScaleMismatch(call.grade_raw, call.grade_scale)

PersonNrOps == StudentOps \cup {"get_results"}

\* C8, as amended: a call of get_results, get_student_data, get_student_name
\* or get_student_data_JSON with a person number that does not normalize,
\* and a call of save_result with such a person number or a date that does
\* not normalize, raises having issued no request.  On an active session
\* the exception is the invalid-person-number one, or for a good person
\* number the invalid-date one, except that save_result raises the
\* invalid-grade exception when one of its grade checks, which come first,
\* fails.
C8_LocalFailuresStayLocal ==
    /\ (call.op \in PersonNrOps /\ BadPersonNr) =>
         /\ pc = "idle" /\ ret.kind = "raise" /\ reqs = <<>>
         /\ signed_in => ret.err = "InvalidPersonNr"
    /\ (call.op = "save_result" /\ (BadPersonNr \/ BadDate)) =>
         /\ pc = "idle" /\ ret.kind = "raise" /\ reqs = <<>>
         /\ (signed_in /\ BadGrade) =>
              ret.err \in {"InvalidGradeLooksLikeScale", "InvalidGradeMismatch"}
         /\ (signed_in /\ ~BadGrade) =>
              ret.err = (IF BadPersonNr THEN "InvalidPersonNr" ELSE "InvalidDate")

C8_BadDateSeen ==
    call.op = "save_result" /\ ~BadPersonNr /\ BadDate /\ ret.err = "InvalidDate" /\ reqs = <<>>

\* C8, as stated: these calls fail with the invalid-person-number or the
\* invalid-date exception.
C8_LocalFailuresNameTheInput ==
    (signed_in /\ \/ call.op \in PersonNrOps /\ BadPersonNr
                  \/ call.op = "save_result" /\ (BadPersonNr \/ BadDate)) =>
        (ret.err \in {"InvalidPersonNr", "InvalidDate"} /\ reqs = <<>>)

\* The pairs of grade and scale that do not go together: P against AF, and
\* A, B, C, D or E against PF.
Incompatible(grade_raw, grade_scale) ==
    \/ grade_raw = <<"P">> /\ grade_scale = <<"A", "F">>
    \/ grade_raw \in {<<"A">>, <<"B">>, <<"C">>, <<"D">>, <<"E">>} /\ grade_scale = <<"P", "F">>

\* C9: on an active session, save_result called with P against AF, or with
\* A, B, C, D or E against PF, raises the invalid-grade exception and issues
\* no request, whatever person number, course, moment and date it is given.
C9_IncompatibleGradeRejected ==
    (signed_in /\ call.op = "save_result" /\ Incompatible(call.grade_raw, call.grade_scale)) =>
        (pc = "idle" /\ ret = Raise("InvalidGradeMismatch") /\ reqs = <<>>)

C9_LetterAgainstPassFail ==
    /\ call.op = "save_result" /\ call.grade_raw = <<"C">> /\ call.grade_scale = <<"P", "F">>
    /\ ~BadPersonNr /\ ~BadDate /\ call.course_moment = "TEN1"
    /\ ret.err = "InvalidGradeMismatch"

\* The checks of save_result in the order (1) the grade is a scale code,
\* (2) grade and scale do not go together, (3) the person number does not
\* normalize, (4) the date does not normalize: whether the call fails each,
\* its exception and its name.
ChecksInOrder ==
    << [fails |-> LooksLikeScale(call.grade_raw), err |-> "InvalidGradeLooksLikeScale",
        name |-> "grade_is_scale"],
       [fails |-> GradeScaleMismatch(call.grade_raw, call.grade_scale),
        err |-> "InvalidGradeMismatch", name |-> "grade_matches_scale"],
       [fails |-> BadPersonNr, err |-> "InvalidPersonNr", name |-> "person_nr"],
       [fails |-> BadDate, err |-> "InvalidDate", name |-> "date"] >>

\* C10: on an active session, save_result raises the exception of the first
\* check of the order (1)-(4) its arguments fail, has evaluated the checks up
\* to that one and none after it, and has issued no request; when no check
\* fails, all four are evaluated and none of the four exceptions is raised.
C10_FirstViolationReported ==
    (signed_in /\ call.op = "save_result") =>
        LET failing == {k \in 1..4 : ChecksInOrder[k].fails}
            first == CHOOSE k \in failing : \A j \in failing : k <= j
        IN  IF failing = {}
              THEN /\ loc.checked = <<"signed_in">> \o [k \in 1..4 |-> ChecksInOrder[k].name]
                   /\ ret.err \notin {ChecksInOrder[k].err : k \in 1..4}
              ELSE /\ ret = Raise(ChecksInOrder[first].err)
                   /\ loc.checked = <<"signed_in">> \o [k \in 1..first |-> ChecksInOrder[k].name]
                   /\ reqs = <<>>
                   /\ pc = "idle"

C10_SeveralViolations ==
    /\ call.op = "save_result" /\ call.grade_raw = <<"A">> /\ call.grade_scale = <<"P", "F">>
    /\ BadPersonNr /\ BadDate
    /\ ret.err = "InvalidGradeMismatch"

\* The mutating requests the call has issued, as positions in reqs.
Writes == {k \in 1..Len(reqs) : reqs[k].m \in {"PUT", "POST"}}

\* save_result has ended having fetched and parsed the result set.
SavedAfterFetch ==
    call.op = "save_result" /\ pc = "idle" /\ loc.student_course_results # NoneRec

\* The pending records of the fetched result set whose instance is the target.
FetchedPendingOfTarget ==
    LET results == loc.student_course_results.results
    IN  {results[k].pending.id : k \in {j \in 1..Len(results) :
            /\ results[j].pending # NoneRec
            /\ results[j].pending.moment_id = loc.course_moment_id}}

\* The stamp the fetched result set gives the pending record with the id.
FetchedStamp(id) ==
    LET results == loc.student_course_results.results
        k == CHOOSE j \in 1..Len(results) :
                 results[j].pending # NoneRec /\ results[j].pending.id = id
    IN  results[k].pending.last_modified

\* The pairs of grade id and scale id of the catalog that the grade code and
\* the scale code of the call name.
ResolvedGrade ==
    UNION {{<<Catalog[s].grades[g].id, Catalog[s].id>> :
              g \in {y \in 1..Len(Catalog[s].grades) :
                        Catalog[s].grades[y].code = call.grade_raw}} :
           s \in {x \in 1..Len(Catalog) : Catalog[x].code = call.grade_scale}}

\* C11: when the result set save_result fetched has a pending record of the
\* target instance, no create is issued; if grade and scale resolve, the
\* one write is an update that carries the id and the last-modification
\* stamp of that record as fetched, the resolved grade id and scale id and
\* the normalized date; if they do not resolve, nothing is written.
C11_UpdateCarriesFetchedStamp ==
    (SavedAfterFetch /\ FetchedPendingOfTarget # {}) =>
        /\ \A k \in Writes : reqs[k].m = "PUT"
        /\ IF ResolvedGrade = {}
             THEN Writes = {} /\ ret.err = "StopIteration"
             ELSE /\ Writes = {Len(reqs)}
                  /\ reqs[Len(reqs)].url = "studieresultat/uppdatera"
                  /\ reqs[Len(reqs)].body.ResultatUID \in FetchedPendingOfTarget
                  /\ reqs[Len(reqs)].body.SenasteResultatandring =
                       FetchedStamp(reqs[Len(reqs)].body.ResultatUID)
                  /\ <<reqs[Len(reqs)].body.Betygsgrad, reqs[Len(reqs)].body.BetygsskalaID>>
                       \in ResolvedGrade
                  /\ reqs[Len(reqs)].body.Examinationsdatum = validate_date(call.result_date_raw)

C11_DraftUpdated ==
    /\ SavedAfterFetch /\ FetchedPendingOfTarget = {"p1"} /\ ret = Return(TRUE)
    /\ reqs[Len(reqs)].m = "PUT" /\ reqs[Len(reqs)].body.SenasteResultatandring = 1
    /\ pending["i1"].stamp = 2

\* C12: when the result set save_result fetched has no pending record of the
\* target instance, and grade and scale resolve, the one write is a create
\* that carries the id of the result set, the target instance, the resolved
\* grade id and scale id and the normalized date; no call of save_result
\* issues more than one write.
C12_CreateWhenNoDraft ==
    /\ call.op = "save_result" => Cardinality(Writes) <= 1
    /\ (/\ SavedAfterFetch
        /\ loc.course_moment_id # "unbound"
        /\ FetchedPendingOfTarget = {}
        /\ ResolvedGrade # {}) =>
           /\ Writes = {Len(reqs)}
           /\ reqs[Len(reqs)].m = "POST"
           /\ reqs[Len(reqs)].url = "studieresultat/skapa"
           /\ reqs[Len(reqs)].body.StudieresultatUID = loc.student_course_results.id
           /\ reqs[Len(reqs)].body.UtbildningsinstansUID = loc.course_moment_id
           /\ <<reqs[Len(reqs)].body.Betygsgrad, reqs[Len(reqs)].body.BetygsskalaID>>
                \in ResolvedGrade
           /\ reqs[Len(reqs)].body.Examinationsdatum = validate_date(call.result_date_raw)

C12_DraftCreatedBesideAnother ==
    /\ SavedAfterFetch /\ loc.course_moment_id = "i1" /\ FetchedPendingOfTarget = {}
    /\ Len(loc.student_course_results.results) > 0
    /\ reqs[Len(reqs)].m = "POST" /\ ret = Return(TRUE)
    /\ pending["i1"] # NoneRec

\* C13: save_result returns True only if the body of the answer to its write
\* has the result collection; when the body has not, save_result raises the
\* write-rejected exception, which names the person number, the component
\* code, the grade and the date as the caller gave them.
C13_RejectedWriteNamesTheAttempt ==
    (call.op = "save_result" /\ pc = "idle") =>
        /\ ret.kind = "return" => (Writes # {} /\ loc.r = "resultat")
        /\ (Writes # {} /\ loc.r # "resultat") => ret = WriteRejected(call)

\* save_result is about to send an update of a pending record that another
\* user changed after the fetch: the stamp the service holds is no longer the
\* one that was fetched.
StaleAtWrite ==
    /\ pc = "sr_write"
    /\ ResolvedGrade # {}
    /\ FetchedPendingOfTarget # {}
    /\ \E i \in Instances :
         /\ pending[i] # NoneRec
         /\ pending[i].id \in FetchedPendingOfTarget
         /\ pending[i].stamp # FetchedStamp(pending[i].id)

\* C14: when another user changed the pending record after save_result
\* fetched it, the update save_result sends carries the stamp as fetched,
\* the service does not take it, save_result raises the write-rejected
\* exception and the pending record stays as the other user left it.
C14_StaleUpdateRejected ==
    [][(StaleAtWrite /\ pc' = "idle") =>
          /\ Writes' = {Len(reqs')}
          /\ reqs'[Len(reqs')].m = "PUT"
          /\ reqs'[Len(reqs')].body.SenasteResultatandring =
               FetchedStamp(reqs'[Len(reqs')].body.ResultatUID)
          /\ pending' = pending
          /\ ret' = WriteRejected(call)]_vars

\* C15: in the mapping get_results returns, a component code that has both
\* an attested and a pending result has one entry, which reports the grade
\* of the pending result with status pending(N), N being its process status.
C15_PendingShadowsAttested ==
    (call.op = "get_results" /\ pc = "idle" /\ ret.kind = "return") =>
        \A i \in Instances :
            (pending[i] # NoneRec /\ attested[i] # NoneRec) =>
                /\ InstanceCode(i) \in DOMAIN ret.val
                /\ ret.val[InstanceCode(i)].grade = GradeCode(pending[i].grade)
                /\ ret.val[InstanceCode(i)].status = <<"pending", pending[i].status>>

C15_DraftOverAttested ==
    /\ call.op = "get_results" /\ pc = "idle" /\ ret.kind = "return"
    /\ attested["i1"] # NoneRec /\ GradeCode(attested["i1"].grade) = <<"F">>
    /\ pending["i1"] # NoneRec
    /\ ret.val["TEN1"].grade = <<"E">> /\ ret.val["TEN1"].status = <<"pending", 1>>

\* The ids the service gives attested results.
AttestedIds == {InitialAttested(i).id : i \in Instances}

\* The fetched result set has an attested record of the target instance.
FetchedAttestedOfTarget ==
    LET results == loc.student_course_results.results
    IN  \E k \in 1..Len(results) :
          /\ results[k].attested # NoneRec
          /\ results[k].attested.moment_id = loc.course_moment_id

\* C16: save_result writes drafts only: its writes are the draft update and
\* the draft create, no update names the id of an attested result, no step
\* of save_result changes, removes or adds an attested result (only the
\* examiner's step does), and when the target has an attested result and no
\* draft the write is a create.
C16_OnlyDraftsWritten ==
    /\ [](call.op = "save_result" =>
            \A k \in Writes :
                /\ reqs[k].url \in {"studieresultat/uppdatera", "studieresultat/skapa"}
                /\ reqs[k].m = "PUT" => reqs[k].body.ResultatUID \notin AttestedIds)
    /\ []((/\ SavedAfterFetch
           /\ FetchedAttestedOfTarget
           /\ FetchedPendingOfTarget = {}
           /\ ResolvedGrade # {}) =>
             (Writes = {Len(reqs)} /\ reqs[Len(reqs)].m = "POST"))
    /\ [][attested' # attested => UNCHANGED opvars]_vars

C16_CreateBesideAttested ==
    /\ SavedAfterFetch /\ FetchedAttestedOfTarget /\ FetchedPendingOfTarget = {}
    /\ reqs[Len(reqs)].m = "POST" /\ ret = Return(TRUE)
    /\ attested["i1"] = InitialAttested("i1") /\ pending["i1"] # NoneRec

\* C17: normalizing a person number that is itself the output of a
\* normalization gives the same string.
C17_PersonNrNormalizationIdempotent ==
    (call.op = "validate" /\ nops >= 1 /\ pc \in {"validate_date", "validated"})
        => loc.person_nr = call.person_nr_raw

\* A canonical person number, the output of a first normalization, was
\* normalized again.
C17_CanonicalNormalizedAgain ==
    /\ call.op = "validate" /\ nops = 1 /\ pc = "validated"
    /\ call.person_nr_raw = <<"2", "0">> \o <<"0", "5">> \o PnrMonthDay \o <<"T", "2", "A", "_">>
    /\ loc.person_nr = call.person_nr_raw

\* The century the code infers (line 3501), and the century by the two-digit
\* current year.
CenturyByYearSince2000(year, yy) ==
    IF (year - 2000) - yy >= 5 THEN <<"2", "0">> ELSE <<"1", "9">>

CenturyByYearMod100(year, yy) ==
    IF (year % 100) - yy >= 5 THEN <<"2", "0">> ELSE <<"1", "9">>

\* A normalized person number is the century, the date and the suffix as
\* they were supplied, 12 characters without separator, the century being
\* Century(current year, YY) when none was supplied.
PersonNrCanonical(Century(_, _)) ==
    (call.op = "validate" /\ pc \in {"validate_date", "validated"}) =>
        \A y \in PnrYears, sp \in PnrSeparators, sf \in PnrSuffixes :
            /\ call.person_nr_raw = y \o PnrMonthDay \o sp \o sf
                  => /\ loc.person_nr = Century(now_year, Int2(y, 1)) \o y \o PnrMonthDay \o sf
                     /\ Len(loc.person_nr) = 12
            /\ \A c \in Centuries \ {<<>>} :
                  call.person_nr_raw = c \o y \o PnrMonthDay \o sp \o sf
                      => loc.person_nr = c \o y \o PnrMonthDay \o sf

C19_DateCanonical ==
    (call.op = "validate" /\ pc = "validated") =>
        /\ \A y \in DateYears, h1 \in Hyphens, h2 \in Hyphens :
              LET rest == <<"-", "0", "3", "-", "1", "4">>
              IN  /\ call.result_date_raw = y \o h1 \o <<"0", "3">> \o h2 \o <<"1", "4">>
                        => loc.result_date = <<"2", "0">> \o y \o rest
                  /\ \A c \in Centuries \ {<<>>} :
                        call.result_date_raw = c \o y \o h1 \o <<"0", "3">> \o h2 \o <<"1", "4">>
                            => loc.result_date = c \o y \o rest
        /\ call.result_date_raw = DateBad => loc.result_date = NoneSeq

\* The date 99-03-14 became 2099-03-14.
C19_Year99Becomes2099 ==
    /\ call.op = "validate" /\ pc = "validated"
    /\ call.result_date_raw = <<"9", "9", "-", "0", "3", "-", "1", "4">>
    /\ loc.result_date = <<"2", "0", "9", "9", "-", "0", "3", "-", "1", "4">>

\* C20: each mutating call (the PUT or POST of save_result, the PUT of
\* participants_JSON) carries as XSRF token the value the cookie has in the
\* jar at the moment the call is issued, also when the cookie was rotated by
\* the answers to the reads before it.
C20_TokenReadAtEachWrite ==
    [][(reqs' # reqs /\ reqs' # <<>> /\ reqs'[Len(reqs')].m \in {"PUT", "POST"})
          => (reqs'[Len(reqs')].xsrf = cookie /\ cookie # 0)]_vars

\* The first operation on the session, a save_result, sent a write with the
\* token the cookie was rotated to during its reads.
C20_RotatedTokenSent ==
    /\ nops = 1 /\ call.op = "save_result" /\ pc = "idle"
    /\ \E k \in Writes : reqs[k].xsrf = 2

\* C21: every request issued through the session carries the shared Accept
\* header, and every PUT and POST carries in addition the XSRF token and a
\* Referer header.
C21_WritesCarryTokenAndReferer ==
    \A k \in 1..Len(reqs) :
        /\ "Accept" \in reqs[k].hdr
        /\ k \in Writes => {"X-XSRF-TOKEN", "Referer"} \subseteq reqs[k].hdr

\* Whether the sequence a is the beginning of the sequence b.
IsPrefix(a, b) == Len(a) <= Len(b) /\ \A k \in 1..Len(a) : a[k] = b[k]

\* The request `name' is issued in this step of the constructor.
HsIssues(name) ==
    /\ Len(hlog') > Len(hlog)
    /\ \E k \in (Len(hlog) + 1)..Len(hlog') : hlog'[k] = name

\* C22: the requests of the handshake are issued in one fixed order; the
\* credential POST only after form action, login token and execution token
\* were found in the login form, the SAML POST only after the credential POST
\* returned an action form, the grade-scale GET only after the SAML POST
\* returned a page without the unauthorized marker, and the session becomes
\* active only with the Grade Catalog parsed and indexed.
C22_HandshakeInOrder ==
    /\ [](IsPrefix(hlog, FullHandshake))
    /\ [][/\ HsIssues("POST credentials")
               => (hlog[Len(hlog)] = "POST sso" /\ page = LoginFormFragments)
          /\ HsIssues("POST saml")
               => (hlog[Len(hlog)] = "POST credentials" /\ "action" \in page)
          /\ HsIssues("GET betygsskala")
               => (hlog[Len(hlog)] = "POST saml" /\ "marker" \notin page)
          /\ (~signed_in /\ signed_in')
               => /\ hlog' = FullHandshake
                  /\ grade_scales' = Catalog
                  /\ grade_by_id' = GradeIds(Catalog)]_vars

\* The constructor returned a session, having issued all seven requests.
C22_HandshakeCompleted ==
    /\ obj = "live" /\ signed_in /\ hlog = FullHandshake
    /\ grade_scales = Catalog /\ nops = 0 /\ pc = "idle"

\* save_result has matched the enrollment and is past lines 241-248.
TargetResolved ==
    /\ call.op = "save_result"
    /\ loc.student_course # NoneRec
    /\ pc \in {"sr_results", "sr_write", "idle"}

\* The sub-component list of the round was fetched.
MomentsFetched == \E k \in 1..Len(reqs) : reqs[k].url = "moment"

\* C23: in save_result, when the component code is the course code of the
\* matched enrollment, the target is the enrollment's own instance and the
\* sub-components of the round are not fetched; otherwise they are fetched
\* and the target is the instance of a sub-component with the supplied code.
C23_TargetResolution ==
    TargetResolved =>
        IF call.course_moment = loc.student_course.code
          THEN loc.course_moment_id = loc.student_course.instance_id /\ ~MomentsFetched
          ELSE /\ MomentsFetched
               /\ LET named == {k \in 1..Len(Moments) :
                                  Moments[k].Utbildningskod = call.course_moment}
                  IN  IF named = {} THEN loc.course_moment_id = "unbound"
                      ELSE \E k \in named :
                             loc.course_moment_id = Moments[k].UtbildningsinstansUID

\* A grade on the whole course was created on the enrollment's own instance,
\* the sub-components not having been fetched.
C23_WholeCourseGrade ==
    /\ TargetResolved /\ pc = "idle" /\ ret = Return(TRUE)
    /\ call.course_moment = "DD1321" /\ loc.course_moment_id = "i0"
    /\ ~MomentsFetched
    /\ reqs[Len(reqs)].m = "POST" /\ reqs[Len(reqs)].body.UtbildningsinstansUID = "i0"

\* The student has no current enrollment with the course code.
NoEnrollment(course_code) ==
    ~\E k \in 1..Len(Participations) :
        /\ Participations[k].Nuvarande /\ Participations[k].has_code
        /\ Participations[k].Utbildningskod = course_code

\* The component code is neither the course code nor the code of a
\* sub-component of the round.
NoComponent(course_code, course_moment) ==
    /\ course_moment # course_code
    /\ \A k \in 1..Len(Moments) : Moments[k].Utbildningskod # course_moment

\* C24: a save_result for a course the student has no current enrollment in,
\* or for a component that is neither the course nor a sub-component of the
\* round, issues no create or update and ends with an exception, whatever
\* pending records the fetched result set holds.
C24_NoTargetNoWrite ==
    (/\ call.op = "save_result"
     /\ NoEnrollment(call.course_code) \/ NoComponent(call.course_code, call.course_moment))
        => /\ Writes = {}
           /\ pc = "idle" => ret.kind = "raise"

\* A save_result for a component the round does not have fetched a result
\* set with a pending record and raised without a write.
C24_UnknownComponentWithDrafts ==
    /\ call.op = "save_result" /\ pc = "idle"
    /\ call.course_code = "DD1321" /\ call.course_moment = "LAB9"
    /\ loc.student_course_results # NoneRec
    /\ \E k \in 1..Len(loc.student_course_results.results) :
         loc.student_course_results.results[k].pending # NoneRec
    /\ ret = Raise("UnboundLocalError")
    /\ Writes = {}

\* The grade code is not a grade of the requested scale of the catalog, or
\* is one that is not flagged as valid as a final grade.
NotFinalGradeOfScale(grade_raw, grade_scale) ==
    LET scale == get_grade_scale_by_code(Catalog, grade_scale)
    IN  /\ scale # NoneRec
        /\ \/ GradeOfScale(scale, grade_raw) = NoneRec
           \/ ~GradeOfScale(scale, grade_raw).accepted

\* C25: on an active session, save_result called with a grade code that is
\* not a grade of the requested scale, or is not flagged as valid as a final
\* grade in it, issues no create or update and raises the invalid-grade
\* exception.
C25_NonFinalGradeRejected ==
    (/\ signed_in /\ call.op = "save_result"
     /\ NotFinalGradeOfScale(call.grade_raw, call.grade_scale))
        => /\ Writes = {}
           /\ pc = "idle" => ret.err \in {"InvalidGradeLooksLikeScale", "InvalidGradeMismatch"}

\* C26: the mapping get_results returns has no entry for the attested record
\* without a grade code (the credit transfer TGR1) nor for a record of the
\* group of another education (LAB1), and for every attested result of the
\* enrollment's education whose component has no pending record it has the
\* entry with the grade code, status 'attested' and the record's own date.
C26_AttestedEntries ==
    (call.op = "get_results" /\ pc = "idle" /\ ret.kind = "return") =>
        /\ "TGR1" \notin DOMAIN ret.val
        /\ "LAB1" \notin DOMAIN ret.val
        /\ \A i \in Instances :
             (attested[i] # NoneRec /\ pending[i] = NoneRec) =>
                 /\ InstanceCode(i) \in DOMAIN ret.val
                 /\ ret.val[InstanceCode(i)] =
                      [grade |-> GradeCode(attested[i].grade), status |-> <<"attested">>,
                       date |-> attested[i].date]

\* get_results returned the attested result of TEN1, the answer of the
\* service having held a credit transfer and the group of another education.
C26_AttestedReturned ==
    /\ call.op = "get_results" /\ pc = "idle" /\ ret.kind = "return"
    /\ attested["i1"] # NoneRec /\ pending["i1"] = NoneRec
    /\ DOMAIN ret.val = {"TEN1"}
    /\ ret.val["TEN1"].status = <<"attested">>
    /\ Len(AttestedAnswer(attested)) = 2
    /\ Len(AttestedAnswer(attested)[2].Studentresultat) = 2

\* save_result sends its write in this step.
WriteSent ==
    /\ call.op = "save_result" /\ pc = "sr_write"
    /\ Len(reqs') = Len(reqs) + 1
    /\ reqs'[Len(reqs')].m \in {"PUT", "POST"}

\* C27: with no other user acting on the service, a save_result whose target
\* has a pending record at the service, be it one an earlier create of this
\* session left there with or without its answer reaching the caller, sends
\* an update of that record and never a create; a pending record, once
\* there, stays the one pending record of its component.
C27_RetryUpdates ==
    /\ [][WriteSent =>
            IF pending[loc.course_moment_id] # NoneRec
              THEN /\ reqs'[Len(reqs')].m = "PUT"
                   /\ reqs'[Len(reqs')].body.ResultatUID = pending[loc.course_moment_id].id
              ELSE reqs'[Len(reqs')].m = "POST"]_vars
    /\ [][\A i \in Instances :
            pending[i] # NoneRec => (pending'[i] # NoneRec /\ pending'[i].id = pending[i].id)]_vars

\* The second save_result of the session updated the draft that its first
\* one created for the component.
C27_CreatedThenUpdated ==
    /\ nops = 2 /\ call.op = "save_result" /\ pc = "idle" /\ ret = Return(TRUE)
    /\ call.course_moment = "TEN1"
    /\ reqs[Len(reqs)].m = "PUT" /\ reqs[Len(reqs)].body.ResultatUID = CreatedId("i1")
    /\ pending["i1"].id = CreatedId("i1") /\ pending["i1"].stamp = 2

\* A step of get_results: its call, or one of its requests.
GetResultsStep ==
    \/ pc = "idle" /\ call'.op = "get_results" /\ nops' = nops + 1
    \/ pc \in {"gr_student", "gr_courses", "gr_attested", "gr_pending", "gr_instance"}

\* C28: get_results issues GET requests only, changes no pending or attested
\* record at the service, and leaves the active flag, the transport, the
\* Grade Catalog with its index and the shared headers as they were.
C28_GetResultsReadOnly ==
    /\ [](call.op = "get_results" => \A k \in 1..Len(reqs) : reqs[k].m = "GET")
    /\ [][GetResultsStep =>
            UNCHANGED <<pending, attested, signed_in, session, s_closed, grade_scales,
                        grade_by_id, headers>>]_vars

\* get_results returned a mapping with a pending and an attested entry,
\* having issued at least five requests.
C28_ResultsRead ==
    /\ call.op = "get_results" /\ pc = "idle" /\ ret.kind = "return"
    /\ DOMAIN ret.val = {"DD1321", "TEN1"}
    /\ Len(reqs) >= 5
    /\ pending["i0"] # NoneRec /\ attested["i1"] # NoneRec

\* logout is called on an active session in this step.
LogoutStep == pc = "idle" /\ signed_in /\ call'.op = "logout" /\ nops' = nops + 1

\* The call that has ended is a logout the service answered with another
\* status than 200.
LogoutRefused ==
    /\ pc = "idle" /\ call.op = "logout" /\ ret.kind = "return"
    /\ ret.val # 200

\* C30: a logout on an active session that is answered with another status
\* than 200 leaves signed_in true and the transport set and open, and the
\* call after it passes the signed-in check; a logout answered 200 clears
\* signed_in, closes and drops the transport.
C30_LogoutOnlyOn200 ==
    /\ [][LogoutStep =>
            IF ret'.val = 200
              THEN ~signed_in' /\ session' = None /\ s_closed'
              ELSE UNCHANGED <<signed_in, session, s_closed>>]_vars
    /\ [](LogoutRefused => (signed_in /\ session = "s" /\ ~s_closed))
    /\ [][(LogoutRefused /\ nops' = nops + 1) => ret'.err # "NotSignedIn"]_vars

\* A logout was answered 500 and the session is as it was.
C30_LogoutRefusedSeen ==
    /\ LogoutRefused /\ ret.val = 500 /\ reqs = <<Get("logout")>>
    /\ signed_in /\ session = "s" /\ ~s_closed /\ ~logged_out

\* The creates the two workers sent for the instance.
CreatesSent(inst) ==
    {<<"first", k>> : k \in {k \in Writes : /\ reqs[k].m = "POST"
                                             /\ reqs[k].body.UtbildningsinstansUID = inst}}
      \cup {<<"second", k>> : k \in {k \in 1..Len(peer.reqs) :
                                       /\ peer.reqs[k].m = "POST"
                                       /\ peer.reqs[k].body.UtbildningsinstansUID = inst}}

\* C29: of two save_result calls that run at the same time on two sessions,
\* for the same student and the same component, at most one sends a create
\* for the component.
C29_OneCreatePerComponent ==
    (call.op = "save_result" /\ peer.call = call) =>
        \A i \in Instances : Cardinality(CreatesSent(i)) <= 1

====
